---- MODULE Spec2Model ----
(***************************************************************************)
(* Session-lifecycle manager of VinnustundScraper (src/scraper.py).        *)
(*                                                                         *)
(* Every operation of the scraper runs on a thread with a call stack of    *)
(* frames [fn, pc, locals]; one action is one step of one function between *)
(* two side effects (a network request, a critical section, a sleep, a     *)
(* call or a return).  The remote server is the environment: each request  *)
(* draws its outcome (a response, a retryable transport error or another   *)
(* error) from a small set.                                                *)
(***************************************************************************)
EXTENDS Integers, Sequences, FiniteSets, TLC

VARIABLES
    keep_alive_running,       \* self.keep_alive_running
    refresh_running,          \* self._refresh_running
    creds,                    \* self._username and self._password are both set
    jar,                      \* self.session.cookies: name -> NoCookie or a cookie
    consecutive_failures,     \* self.consecutive_failures
    last_activity,            \* self.last_activity
    last_successful_request,  \* self.last_successful_request
    last_login_at,            \* self._last_login_at (NoTime = None)
    lock,                     \* self._lock: NoThread or the thread holding it
    now,                      \* datetime.now(), in days
    stack,                    \* thread -> sequence of frames, the running one last
    ret,                      \* thread -> what the last finished call handed its caller
    obs                       \* thread -> observations of the running top-level operation

\* the stop signals of the two schedulers
signals == <<keep_alive_running, refresh_running>>

vars == <<signals, creds, jar, consecutive_failures, last_activity, last_successful_request,
          last_login_at, lock, now, stack, ret, obs>>

----------------------------------------------------------------------------
(* Bounds of the model *)

\* the clock runs from 0 to MaxTime
MaxTime == 3

\* consecutive_failures is followed up to MaxFailures
MaxFailures == 3

\* _retry_request is called directly with max_retries in 0..MaxRetriesArg
MaxRetriesArg == 3

\* get_shifts frames a thread may stack before the model stops following it
MaxDepth == 3

----------------------------------------------------------------------------
(* Program constants *)

\* max_retries of the listing GET, the re-fetch and the form POST
ShiftsMaxRetries == 3

\* max_retries of the base-URL refresh, keep-alive and test_authentication
ShortMaxRetries == 2

NoThread == "none"
NoTime == -1

\* SESSION_COOKIE_NAMES, reduced to the primary cookie and one secondary one
CookieNames == {"JSESSIONID", "sessionPersist"}

\* cookie.expires is None: a cookie that lasts as long as the session
NoExpiry == -1

\* cookie_expiration_years
ExpirationYears == 70

\* "within 30 days": time.time() + 30 * 24 * 60 * 60, in days
SoonDays == 30

\* a name the jar holds no cookie for
NoCookie == [value |-> NoThread, expires |-> NoExpiry]

\* a cookie as a response sets it: its value is the session the server opened
\* for the thread whose request it answers; it carries no expiry
Cookie(t) == [value |-> t, expires |-> NoExpiry]

\* a cookie handed to set_cookies by the caller
GivenCookie == [value |-> "given", expires |-> NoExpiry]

EmptyJar == [c \in CookieNames |-> NoCookie]

\* the names the jar holds a cookie for
Held(j) == {c \in DOMAIN j : j[c] # NoCookie}

\* len(self.session.cookies)
JarSize(j) == Cardinality(Held(j))

----------------------------------------------------------------------------
(* Responses of the remote server, by the features the code inspects *)

\* size:   len(response.text): "tiny" < 500 <= "small" < 1000 <= "big"
\* status: response.status_code
\* url:    final URL: the timesheet page, the login page, or another one
\* loginWord: 'login' in text.lower() or 'VSLogin' in text
\* loginJsp:  'VSLogin.jsp' in text or 'login.jsp' in text
\* user, pass: 'name="username"', 'name="password"' in text
\* table:  'clsTableControl' in text;  form: <form name="detail_form"> present
\* loginForm: <form name="search_form"> (or action VSLoginX) present
\* credFields: 'notandanafn', 'lykilord' and 'search_form' all in text
\* cookies: names the response sets (Set-Cookie)
Page(size, status, url, loginWord, loginJsp, user, pass, table, form, loginForm, credFields, cookies) ==
    [size |-> size, status |-> status, url |-> url, loginWord |-> loginWord,
     loginJsp |-> loginJsp, user |-> user, pass |-> pass, table |-> table,
     form |-> form, loginForm |-> loginForm, credFields |-> credFields,
     cookies |-> cookies]

\* the timesheet page with its form and data table
DataPage == Page("big", 200, "data", FALSE, FALSE, FALSE, FALSE, TRUE, TRUE,
                 FALSE, FALSE, {})

\* the timesheet page, the server renewing the session cookie
DataPageCookie == Page("big", 200, "data", FALSE, FALSE, FALSE, FALSE, TRUE, TRUE,
                       FALSE, FALSE, {"JSESSIONID"})

\* a render of the timesheet page without detail_form
NoFormPage == Page("big", 200, "data", FALSE, FALSE, FALSE, FALSE, FALSE, FALSE,
                   FALSE, FALSE, {})

\* the login page, as served to an expired session
LoginPage == Page("big", 200, "login", TRUE, TRUE, FALSE, FALSE, FALSE, FALSE,
                  TRUE, TRUE, {})

\* an error page of the application (long body, no login marker)
ErrorPage == Page("big", 404, "other", FALSE, FALSE, FALSE, FALSE, FALSE, FALSE,
                  FALSE, FALSE, {})

\* the page after a login, with the session cookies it sets
LandingPage(cs) == Page("big", 200, "other", FALSE, FALSE, FALSE, FALSE, FALSE,
                        FALSE, FALSE, FALSE, cs)

\* what a request of an operation may be answered with
Responses == {DataPage, DataPageCookie, NoFormPage, LoginPage, ErrorPage}

\* what the two requests of login may be answered with
LoginResponses == {LoginPage, ErrorPage} \cup {LandingPage(cs) : cs \in SUBSET CookieNames}

\* if len(response.text) < 1000:
\*     if 'login' in text.lower() or 'VSLogin' in text or len(text) < 500
SmallResponse(r) == r.size # "big" /\ (r.loginWord \/ r.size = "tiny")

\* a classifier that does not look at the status code
StatusIgnored(r) == FALSE

\* if response.status_code in [401, 403]
StatusInvalid(r) == r.status \in {401, 403}

\* if 'login' in response.url.lower() or 'VSLogin' in response.url
RedirectedToLogin(r) == r.url = "login"

\* if 'VSLogin.jsp' in text or 'login.jsp' in text:
\*     if 'name="username"' in text or 'name="password"' in text
LoginFormDetected(r) == r.loginJsp /\ (r.user \/ r.pass)

\* if 'starfsm_timafaerslur_view.jsp' in response.url
\*    or 'clsTableControl' in text or 'detail_form' in text
TimesheetContent(r) == r.url = "data" \/ r.table \/ r.form

\* _check_session_valid
check_session_valid(r) ==
    IF SmallResponse(r) THEN FALSE
    ELSE IF StatusInvalid(r) THEN FALSE
    ELSE IF RedirectedToLogin(r) THEN FALSE
    ELSE IF LoginFormDetected(r) THEN FALSE
    ELSE IF TimesheetContent(r) THEN TRUE
    ELSE TRUE

----------------------------------------------------------------------------
(* Errors: the exceptions of the code, by the message they carry *)

\* wording: the message matches the test of get_shifts' handler
\*   'Session expired' in m or 'Session may be invalid' in m
\*   or 'Could not find form' in m or 'invalid' in m.lower()
Err(kind, wording) == [kind |-> kind, wording |-> wording]

\* "Session invalid and login not available or failed. ..."
SessionUnavailable == Err("SessionUnavailable", TRUE)

\* "Session expired or invalid. ..."
SessionExpired == Err("SessionExpired", TRUE)

\* "Could not find form on page. Session may be invalid."
FormNotFound == Err("FormNotFound", TRUE)

\* "Initial GET failed with status code N", "Received status code N"
StatusError == Err("StatusError", FALSE)

\* "Connection failed after N attempts: " + str(e)
TransportExhausted(e) == Err("TransportExhausted", e.wording)

\* the kinds of the error taxonomy
TaxonomyKinds == {"TransportExhausted", "SessionExpired", "SessionUnavailable",
                  "FormNotFound", "AuthenticationError"}

\* outcomes of one physical attempt: a response, an exception of
\* retryable_exceptions, or any other exception
Outcome(kind, val) == [kind |-> kind, val |-> val]

TransportErrors == {Err("ConnectionError", FALSE), Err("ChunkedEncodingError", TRUE)}

OtherErrors == {Err("ValueError", FALSE)}

Outcomes(resps) ==
    {Outcome("response", r) : r \in resps}
        \cup {Outcome("retryable", e) : e \in TransportErrors}
        \cup {Outcome("other", e) : e \in OtherErrors}

----------------------------------------------------------------------------
(* Threads, frames and calls *)

Threads == DOMAIN stack

Idle(t) == stack[t] = <<>>

Top(t) == stack[t][Len(stack[t])]

At(t, fn, pc) == ~Idle(t) /\ Top(t).fn = fn /\ Top(t).pc = pc

\* the stack of t with its running frame replaced
SetTop(t, f) == [stack EXCEPT ![t] = [@ EXCEPT ![Len(@)] = f]]

\* the running frame moves to pc and calls f
Call(t, pc, f) ==
    [stack EXCEPT ![t] = Append([@ EXCEPT ![Len(@)].pc = pc], f)]

Pop(t) == [stack EXCEPT ![t] = SubSeq(@, 1, Len(@) - 1)]

NoRet == [kind |-> "none"]
Value(v) == [kind |-> "value", val |-> v]
Raised(e) == [kind |-> "raise", val |-> e]

\* the observations of one top-level operation
\* op: the operation; recoveries: the logins it made to recover; flows: the
\* runs of the fetch/submit flow it began; stamps: how often it did the success
\* bookkeeping ("none", "once", "more"); requested: it sent a request;
\* unlocked: the SessionState fields it wrote without holding the lock;
\* empty: the jar held no cookie when it began.  Of a get_shifts call: ensured:
\* how the login of its _ensure_session_valid ended ("none", "ok", "failed");
\* first: "invalid" once its first listing page was classified invalid with a
\* relogin allowed, "retried" once the login that followed has succeeded.
\* Of a direct call of _retry_request: arg: max_retries.  Of it and of a
\* keep-alive exchange: before: consecutive_failures when it began; last: the
\* outcome of its latest attempt.
NoObs(op, arg) ==
    [op |-> op, arg |-> arg, last |-> NoRet,
     before |-> IF op \in {"_retry_request", "keep_alive"}
                THEN consecutive_failures ELSE 0,
     recoveries |-> 0, flows |-> 0, stamps |-> "none",
     requested |-> FALSE, unlocked |-> {}, empty |-> JarSize(jar) = 0,
     ensured |-> "none", first |-> "none"]

\* one more success bookkeeping (last_successful_request = now, failures = 0)
Stamped(o) == [o EXCEPT !.stamps = IF @ = "none" THEN "once" ELSE "more"]

\* the latest attempt of a direct call of _retry_request, or of a keep-alive
\* exchange, had outcome out
Attempted(o, out) ==
    [o EXCEPT !.requested = TRUE,
              !.last = IF o.op \in {"_retry_request", "keep_alive"} THEN out ELSE @]

\* a thread that keeps the lock when its with block ends
Hold(t) == lock

\* the end of a with self._lock block of t
Release(t) == IF lock = t THEN NoThread ELSE lock

\* a write of SessionState field f by thread t: noted when t does not hold the lock
Write(o, t, f) == IF lock = t THEN o ELSE [o EXCEPT !.unlocked = @ \cup {f}]

----------------------------------------------------------------------------
(* _retry_request(request_func, max_retries) *)

RetryFrame(max_retries) ==
    [fn |-> "_retry_request", pc |-> "try", max_retries |-> max_retries,
     attempt |-> 0, tries |-> 0, fails |-> 0, sleeps |-> 0, out |-> NoRet,
     from |-> "try"]

\* the jar after the transport stored the cookies a response sets
StoreCookies(j, cs, t) == [c \in CookieNames |-> IF c \in cs THEN Cookie(t) ELSE j[c]]

\* a handler that takes every exception for a retryable one
IsRetryableAny(o) == o.kind # "response"

\* except retryable_exceptions as e
IsRetryable(o) == o.kind = "retryable"

\* a retry test that gives up one attempt early
MayRetryEarly(attempt, max_retries) == attempt < max_retries - 1

\* if attempt < max_retries
MayRetry(attempt, max_retries) == attempt < max_retries

\* for attempt in range(max_retries + 1)
InRange(attempt, max_retries) == attempt < max_retries + 1

\* a success path that leaves the counter alone
FailuresKept(n) == n

\* self.consecutive_failures = 0
FailuresAfterSuccess(n) == 0

\* an outcome that ends in consecutive_failures += 1 is followed below MaxFailures
Followed(o) == o.kind = "response" \/ consecutive_failures < MaxFailures

\* response = request_func(), and the except clause the outcome selects
RetryAttempt(t) ==
    /\ At(t, "_retry_request", "try")
    /\ \E o \in Outcomes(Responses) :
        LET f == Top(t)
            g == [f EXCEPT !.tries = @ + 1, !.out = o]
        IN  /\ Followed(o)
            /\ IF o.kind = "response"
               THEN /\ jar' = StoreCookies(jar, o.val.cookies, t)
                    /\ obs' = [obs EXCEPT ![t] =
                                  Attempted(IF o.val.cookies # {} THEN Write(@, t, "jar")
                                            ELSE @, o)]
                    /\ stack' = SetTop(t, [g EXCEPT !.pc = "ok"])
               ELSE /\ jar' = jar
                    /\ obs' = [obs EXCEPT ![t] = Attempted(@, o)]
                    /\ stack' = SetTop(t,
                          IF IsRetryable(o)
                          THEN [g EXCEPT !.fails = @ + 1,
                                         !.pc = IF MayRetry(f.attempt, f.max_retries)
                                                THEN "sleep" ELSE "exhausted"]
                          ELSE [g EXCEPT !.pc = "other"])
    /\ UNCHANGED <<signals, creds, consecutive_failures, last_activity, last_successful_request,
                   last_login_at, lock, now, ret>>

\* with self._lock: last_successful_request = now; consecutive_failures = 0
RetrySuccess(t) ==
    /\ At(t, "_retry_request", "ok")
    /\ lock = NoThread
    /\ lock' = t
    /\ last_successful_request' = now
    /\ consecutive_failures' = FailuresAfterSuccess(consecutive_failures)
    /\ obs' = [obs EXCEPT ![t] = Stamped(@)]
    /\ stack' = SetTop(t, [Top(t) EXCEPT !.pc = "return"])
    /\ UNCHANGED <<signals, creds, jar, last_activity, last_login_at, now, ret>>

\* return response
RetryReturn(t) ==
    /\ At(t, "_retry_request", "return")
    /\ lock' = Release(t)
    /\ ret' = [ret EXCEPT ![t] =
                  [kind |-> "value", val |-> Top(t).out.val, tries |-> Top(t).tries,
                   fails |-> Top(t).fails, sleeps |-> Top(t).sleeps]]
    /\ stack' = Pop(t)
    /\ UNCHANGED <<signals, creds, jar, consecutive_failures, last_activity,
                   last_successful_request, last_login_at, now, obs>>

\* time.sleep(delay), then the next attempt of the for loop
RetrySleep(t) ==
    /\ At(t, "_retry_request", "sleep")
    /\ stack' = SetTop(t, [Top(t) EXCEPT
                               !.sleeps = @ + 1, !.attempt = @ + 1,
                               !.pc = IF InRange(Top(t).attempt + 1, Top(t).max_retries)
                                      THEN "try" ELSE "fallthrough"])
    /\ UNCHANGED <<signals, creds, jar, consecutive_failures, last_activity,
                   last_successful_request, last_login_at, lock, now, ret, obs>>

\* "Request failed: " + str(last_exception), after the for loop
RequestFailed(e) == Err("RequestFailed", e.wording)

\* the exception _retry_request raises from pc for outcome o of its last attempt
RetryError(pc, o) ==
    CASE pc = "exhausted" -> TransportExhausted(o.val)
      [] pc = "fallthrough" -> RequestFailed(o.val)
      [] OTHER -> o.val

\* self.consecutive_failures += 1, counted up to MaxFailures
Counted(n) == IF n < MaxFailures THEN n + 1 ELSE n

\* with self._lock: consecutive_failures += 1 (all attempts failed, the
\* exception is not retryable, or the loop ended)
RetryFailure(t) ==
    /\ \/ At(t, "_retry_request", "exhausted")
       \/ At(t, "_retry_request", "other")
       \/ At(t, "_retry_request", "fallthrough")
    /\ lock = NoThread
    /\ lock' = t
    /\ consecutive_failures' = Counted(consecutive_failures)
    /\ stack' = SetTop(t, [Top(t) EXCEPT !.pc = "raise", !.from = Top(t).pc])
    /\ UNCHANGED <<signals, creds, jar, last_activity, last_successful_request, last_login_at,
                   now, ret, obs>>

\* raise Exception("Connection failed after ..."), or raise
RetryRaise(t) ==
    /\ At(t, "_retry_request", "raise")
    /\ lock' = Release(t)
    /\ ret' = [ret EXCEPT ![t] =
                  [kind |-> "raise", val |-> RetryError(Top(t).from, Top(t).out), tries |-> Top(t).tries,
                   fails |-> Top(t).fails, sleeps |-> Top(t).sleeps]]
    /\ stack' = Pop(t)
    /\ UNCHANGED <<signals, creds, jar, consecutive_failures, last_activity,
                   last_successful_request, last_login_at, now, obs>>

----------------------------------------------------------------------------
(* _extend_cookie_expiration *)

\* future_timestamp: datetime.now() + timedelta(days=expiration_years * 365)
FutureTimestamp(n) == n + ExpirationYears * 365

\* should_extend: JSESSIONID, a session cookie (expires 0 or None), or a
\* cookie expiring within 30 days
should_extend(name, expires, n) ==
    \/ name = "JSESSIONID"
    \/ expires = 0
    \/ expires = NoExpiry
    \/ expires < n + SoonDays

\* the jar after the loop: each cookie to extend gets future_timestamp
Extended(j) ==
    [c \in DOMAIN j |->
        IF j[c] # NoCookie /\ should_extend(c, j[c].expires, now)
        THEN [j[c] EXCEPT !.expires = FutureTimestamp(now)]
        ELSE j[c]]

----------------------------------------------------------------------------
(* login() *)

LoginFrame == [fn |-> "login", pc |-> "start"]

\* raise_for_status()
StatusRaises(r) == r.status >= 400

\* the login page shows the form to fill in
LoginFormFound(r) == ~StatusRaises(r) /\ r.loginForm

\* the checks of the POST response: status, final URL, login form fields
LoginAccepted(r) == ~StatusRaises(r) /\ r.url # "login" /\ ~r.credFields

\* a login that goes on without a username and a password
CredentialsAssumed == TRUE

\* u and p: the username and the password of the instance are both set
CredentialsGiven == creds

\* if not u or not p: return False
LoginNoCredentials(t) ==
    /\ At(t, "login", "start")
    /\ ~CredentialsGiven
    /\ stack' = Pop(t)
    /\ ret' = [ret EXCEPT ![t] = Value(FALSE)]
    /\ UNCHANGED <<signals, creds, jar, consecutive_failures, last_activity,
                   last_successful_request, last_login_at, lock, now, obs>>

\* a login that leaves the jar as it finds it
Kept(j) == j

\* the jar after self.session.cookies.clear()
Cleared(j) == EmptyJar

\* self.session.cookies.clear()
LoginClear(t) ==
    /\ At(t, "login", "start")
    /\ CredentialsGiven
    /\ jar' = Cleared(jar)
    /\ obs' = [obs EXCEPT ![t] = Write(@, t, "jar")]
    /\ stack' = SetTop(t, [Top(t) EXCEPT !.pc = "get"])
    /\ UNCHANGED <<signals, creds, consecutive_failures, last_activity, last_successful_request,
                   last_login_at, lock, now, ret>>

\* what login asks of the response to its request at pc
LoginCheck(pc, r) == IF pc = "get" THEN LoginFormFound(r) ELSE LoginAccepted(r)

\* one request of login: any exception, a bad status or a failed check returns
\* False; otherwise login goes on at pc next
LoginRequest(t, next) ==
    \E o \in Outcomes(LoginResponses) :
        /\ IF o.kind = "response"
           THEN /\ jar' = StoreCookies(jar, o.val.cookies, t)
                /\ obs' = [obs EXCEPT ![t] =
                              [(IF o.val.cookies # {} THEN Write(@, t, "jar") ELSE @)
                                  EXCEPT !.requested = TRUE]]
           ELSE /\ jar' = jar
                /\ obs' = [obs EXCEPT ![t].requested = TRUE]
        /\ IF o.kind = "response" /\ LoginCheck(Top(t).pc, o.val)
           THEN /\ stack' = SetTop(t, [Top(t) EXCEPT !.pc = next])
                /\ ret' = ret
           ELSE /\ stack' = Pop(t)
                /\ ret' = [ret EXCEPT ![t] = Value(FALSE)]

\* get_resp = self.session.get(login_get_url); raise_for_status; find the form
LoginGet(t) ==
    /\ At(t, "login", "get")
    /\ LoginRequest(t, "post")
    /\ UNCHANGED <<signals, creds, consecutive_failures, last_activity, last_successful_request,
                   last_login_at, lock, now>>

\* post_resp = self.session.post(LOGIN_URL, ...); raise_for_status; the checks
LoginPost(t) ==
    /\ At(t, "login", "post")
    /\ LoginRequest(t, "extend")
    /\ UNCHANGED <<signals, creds, consecutive_failures, last_activity, last_successful_request,
                   last_login_at, lock, now>>

\* self._extend_cookie_expiration(self.cookie_expiration_years)
LoginExtend(t) ==
    /\ At(t, "login", "extend")
    /\ jar' = Extended(jar)
    /\ obs' = [obs EXCEPT ![t] = Write(@, t, "jar")]
    /\ stack' = SetTop(t, [Top(t) EXCEPT !.pc = "stamp"])
    /\ UNCHANGED <<signals, creds, consecutive_failures, last_activity, last_successful_request,
                   last_login_at, lock, now, ret>>

\* with self._lock: _last_login_at, last_successful_request = now; failures = 0
LoginStamp(t) ==
    /\ At(t, "login", "stamp")
    /\ lock = NoThread
    /\ lock' = t
    /\ last_login_at' = now
    /\ last_successful_request' = now
    /\ consecutive_failures' = 0
    /\ obs' = [obs EXCEPT ![t] = Stamped(@)]
    /\ stack' = SetTop(t, [Top(t) EXCEPT !.pc = "return"])
    /\ UNCHANGED <<signals, creds, jar, last_activity, now, ret>>

\* return True
LoginReturn(t) ==
    /\ At(t, "login", "return")
    /\ lock' = Release(t)
    /\ stack' = Pop(t)
    /\ ret' = [ret EXCEPT ![t] = Value(TRUE)]
    /\ UNCHANGED <<signals, creds, jar, consecutive_failures, last_activity,
                   last_successful_request, last_login_at, now, obs>>

----------------------------------------------------------------------------
(* get_shifts(date_from, date_to, _retry_after_login) *)

\* flow: which run of the fetch/submit flow of the operation this frame is
\* noform: the listing page was valid but had no detail_form; refetches: the
\* re-fetches of the listing page this execution has attempted
GetShiftsFrame(retried) ==
    [fn |-> "get_shifts", pc |-> "ensure", retried |-> retried, flow |-> 0,
     resp |-> NoRet, err |-> NoRet, errflow |-> 0, noform |-> FALSE, refetches |-> 0]

\* the get_shifts frames on the stack of t
Depth(t) == Cardinality({i \in 1..Len(stack[t]) : stack[t][i].fn = "get_shifts"})

\* a retry call that is made without the flag
RetryFlagLost == FALSE

\* the flag the retry call of get_shifts is made with: _retry_after_login=True
RetryFlag == TRUE

\* not _retry_after_login and self._username and self._password
MayRelogin(f) == ~f.retried /\ creds

\* the wording test of the handler
SessionWording(e) == e.wording

\* get_shifts raises e out of the call
Leave(t, e, flow) ==
    /\ stack' = Pop(t)
    /\ ret' = [ret EXCEPT ![t] = [kind |-> "raise", val |-> e, flow |-> flow]]

\* an exception raised in the try block reaches the handler
Handle(t, e, flow) ==
    /\ stack' = SetTop(t, [Top(t) EXCEPT !.pc = "handler", !.resp = NoRet,
                                         !.err = e, !.errflow = flow])
    /\ ret' = [ret EXCEPT ![t] = NoRet]

\* the running get_shifts calls login to recover and waits at pc
Relogin(t, pc) ==
    /\ stack' = [stack EXCEPT ![t] =
                    Append([@ EXCEPT ![Len(@)].pc = pc, ![Len(@)].resp = NoRet],
                           LoginFrame)]
    /\ ret' = [ret EXCEPT ![t] = NoRet]

\* _ensure_session_valid: with self._lock: self.last_activity = now
EnsureStamp(t) ==
    /\ At(t, "get_shifts", "ensure")
    /\ lock = NoThread
    /\ lock' = t
    /\ last_activity' = now
    /\ stack' = SetTop(t, [Top(t) EXCEPT !.pc = "ensure_check"])
    /\ UNCHANGED <<signals, creds, jar, consecutive_failures, last_successful_request,
                   last_login_at, now, ret, obs>>

\* _ensure_session_valid: no cookie and credentials: login; no cookie: False
EnsureCheck(t) ==
    /\ At(t, "get_shifts", "ensure_check")
    /\ lock' = Release(t)
    /\ IF JarSize(jar) = 0 /\ creds
       THEN /\ stack' = Call(t, "ensure_login", LoginFrame)
            /\ ret' = ret
       ELSE IF JarSize(jar) = 0
       THEN Leave(t, SessionUnavailable, Top(t).flow)
       ELSE /\ stack' = SetTop(t, [Top(t) EXCEPT !.pc = "fetch"])
            /\ ret' = ret
    /\ UNCHANGED <<signals, creds, jar, consecutive_failures, last_activity,
                   last_successful_request, last_login_at, now, obs>>

\* a gate that lets get_shifts go on whatever _ensure_session_valid returned
EnsuredAnyway(ok) == TRUE

\* if not self._ensure_session_valid(): raise
Ensured(ok) == ok

\* if not self._ensure_session_valid(): raise Exception("Session invalid ...")
EnsureLoginReturned(t) ==
    /\ At(t, "get_shifts", "ensure_login")
    /\ ret[t].kind = "value"
    /\ IF Ensured(ret[t].val)
       THEN /\ stack' = SetTop(t, [Top(t) EXCEPT !.pc = "fetch"])
            /\ ret' = [ret EXCEPT ![t] = NoRet]
       ELSE Leave(t, SessionUnavailable, Top(t).flow)
    /\ obs' = [obs EXCEPT ![t].ensured =
                  IF Depth(t) # 1 THEN @ ELSE IF ret[t].val THEN "ok" ELSE "failed"]
    /\ UNCHANGED <<signals, creds, jar, consecutive_failures, last_activity,
                   last_successful_request, last_login_at, lock, now>>

\* the running frame calls _retry_request(request_func, max_retries), waits at pc
Request(t, pc, max_retries) ==
    /\ stack' = Call(t, pc, RetryFrame(max_retries))
    /\ ret' = [ret EXCEPT ![t] = NoRet]

\* Step 1: initial_response = self._retry_request(get_initial_page, max_retries=3)
FetchListing(t) ==
    /\ At(t, "get_shifts", "fetch")
    /\ stack' = [stack EXCEPT ![t] =
                    Append([@ EXCEPT ![Len(@)].pc = "fetched",
                                     ![Len(@)].flow = obs[t].flows + 1],
                           RetryFrame(ShiftsMaxRetries))]
    /\ ret' = [ret EXCEPT ![t] = NoRet]
    /\ obs' = [obs EXCEPT ![t].flows = @ + 1]
    /\ UNCHANGED <<signals, creds, jar, consecutive_failures, last_activity,
                   last_successful_request, last_login_at, lock, now>>

\* with self._lock: _extend_cookie_expiration(...); self.last_activity = now
\* (after the listing GET and after the re-fetch)
AfterGet(t) ==
    /\ \/ At(t, "get_shifts", "fetched")
       \/ At(t, "get_shifts", "refetched")
    /\ ret[t].kind = "value"
    /\ lock = NoThread
    /\ lock' = t
    /\ jar' = Extended(jar)
    /\ last_activity' = now
    /\ stack' = SetTop(t, [Top(t) EXCEPT
                              !.resp = ret[t].val,
                              !.pc = IF Top(t).pc = "fetched" THEN "check_listing"
                                     ELSE "check_refetch"])
    /\ ret' = [ret EXCEPT ![t] = NoRet]
    /\ UNCHANGED <<signals, creds, consecutive_failures, last_successful_request, last_login_at,
                   now, obs>>

\* the exception a failed _retry_request or a failed retry call raised in the
\* try block reaches the handler (one raised during the refresh is replaced by
\* "Could not find form on page. Session may be invalid.")
Caught(t) ==
    /\ ~Idle(t)
    /\ Top(t).fn = "get_shifts"
    /\ Top(t).pc \in {"fetched", "refreshed", "refetched", "posted", "retry_call"}
    /\ ret[t].kind = "raise"
    /\ Handle(t,
              IF Top(t).pc \in {"refreshed", "refetched"} THEN FormNotFound
              ELSE ret[t].val,
              IF Top(t).pc = "retry_call" THEN ret[t].flow ELSE Top(t).flow)
    /\ UNCHANGED <<signals, creds, jar, consecutive_failures, last_activity,
                   last_successful_request, last_login_at, lock, now, obs>>

\* if not self._check_session_valid(response): relogin and retry once, or raise
\* (after the listing GET and after the form POST)
Invalid(t, pc) ==
    IF MayRelogin(Top(t))
    THEN Relogin(t, pc)
    ELSE Handle(t, SessionExpired, Top(t).flow)

\* the checks of the listing page: validity, status, detail_form
CheckListing(t) ==
    /\ At(t, "get_shifts", "check_listing")
    /\ lock' = Release(t)
    /\ LET r == Top(t).resp
       IN  IF ~check_session_valid(r)
           THEN /\ Invalid(t, "relogin")
                /\ obs' = [obs EXCEPT
                              ![t].recoveries = IF MayRelogin(Top(t)) THEN @ + 1 ELSE @,
                              ![t].first = IF MayRelogin(Top(t)) /\ Top(t).flow = 1
                                           THEN "invalid" ELSE @]
           ELSE IF r.status # 200
           THEN Handle(t, StatusError, Top(t).flow) /\ obs' = obs
           ELSE /\ stack' = SetTop(t, [Top(t) EXCEPT
                                         !.resp = NoRet,
                                         !.noform = ~r.form,
                                         !.pc = IF r.form THEN "post" ELSE "refresh"])
                /\ ret' = ret
                /\ obs' = obs
    /\ UNCHANGED <<signals, creds, jar, consecutive_failures, last_activity,
                   last_successful_request, last_login_at, now>>

\* if self.login(): return self.get_shifts(..., _retry_after_login=True)
\* raise Exception("Session expired or invalid. ...")
ReloginReturned(t) ==
    /\ At(t, "get_shifts", "relogin")
    /\ ret[t].kind = "value"
    /\ IF ret[t].val
       THEN /\ Depth(t) < MaxDepth
            /\ stack' = Call(t, "retry_call", GetShiftsFrame(RetryFlag))
            /\ ret' = [ret EXCEPT ![t] = NoRet]
       ELSE Handle(t, SessionExpired, Top(t).flow)
    /\ obs' = [obs EXCEPT ![t].first =
                  IF ret[t].val /\ @ = "invalid" THEN "retried" ELSE @]
    /\ UNCHANGED <<signals, creds, jar, consecutive_failures, last_activity,
                   last_successful_request, last_login_at, lock, now>>

\* return of the retry call's records (from the try block or from the handler)
RetryCallReturned(t) ==
    /\ \/ At(t, "get_shifts", "retry_call")
       \/ At(t, "get_shifts", "handler_retry_call")
    /\ ret[t].kind = "value"
    /\ stack' = Pop(t)
    /\ UNCHANGED <<signals, creds, jar, consecutive_failures, last_activity,
                   last_successful_request, last_login_at, lock, now, ret, obs>>

\* self._retry_request(get_base_refresh, max_retries=2, base_delay=0.5)
RefreshBase(t) ==
    /\ At(t, "get_shifts", "refresh")
    /\ Request(t, "refreshed", ShortMaxRetries)
    /\ UNCHANGED <<signals, creds, jar, consecutive_failures, last_activity,
                   last_successful_request, last_login_at, lock, now, obs>>

\* retry_response = self._retry_request(get_retry_page, max_retries=3)
Refetch(t) ==
    /\ At(t, "get_shifts", "refreshed")
    /\ ret[t].kind = "value"
    /\ stack' = [stack EXCEPT ![t] =
                    Append([@ EXCEPT ![Len(@)].pc = "refetched",
                                     ![Len(@)].refetches = @ + 1],
                           RetryFrame(ShiftsMaxRetries))]
    /\ ret' = [ret EXCEPT ![t] = NoRet]
    /\ UNCHANGED <<signals, creds, jar, consecutive_failures, last_activity,
                   last_successful_request, last_login_at, lock, now, obs>>

\* the checks of the re-fetched page: validity, detail_form; a failure raises
\* "Could not find form on page. Session may be invalid."
CheckRefetch(t) ==
    /\ At(t, "get_shifts", "check_refetch")
    /\ lock' = Release(t)
    /\ LET r == Top(t).resp
       IN  IF check_session_valid(r) /\ r.form
           THEN /\ stack' = SetTop(t, [Top(t) EXCEPT !.resp = NoRet, !.pc = "post"])
                /\ ret' = ret
           ELSE Handle(t, FormNotFound, Top(t).flow)
    /\ UNCHANGED <<signals, creds, jar, consecutive_failures, last_activity,
                   last_successful_request, last_login_at, now, obs>>

\* Step 3: response = self._retry_request(post_form, max_retries=3)
SubmitForm(t) ==
    /\ At(t, "get_shifts", "post")
    /\ Request(t, "posted", ShiftsMaxRetries)
    /\ UNCHANGED <<signals, creds, jar, consecutive_failures, last_activity,
                   last_successful_request, last_login_at, lock, now, obs>>

\* with self._lock: extend; last_activity, last_successful_request = now;
\* consecutive_failures = 0
AfterPost(t) ==
    /\ At(t, "get_shifts", "posted")
    /\ ret[t].kind = "value"
    /\ lock = NoThread
    /\ lock' = t
    /\ jar' = Extended(jar)
    /\ last_activity' = now
    /\ last_successful_request' = now
    /\ consecutive_failures' = 0
    /\ obs' = [obs EXCEPT ![t] = Stamped(@)]
    /\ stack' = SetTop(t, [Top(t) EXCEPT !.resp = ret[t].val, !.pc = "check_post"])
    /\ ret' = [ret EXCEPT ![t] = NoRet]
    /\ UNCHANGED <<signals, creds, last_login_at, now>>

\* what _parse_table hands back for the page: the records of its data table
Records(r) == IF r.table THEN "rows" ELSE "empty"

\* the checks of the POST response: validity, status; then parse and return
CheckPost(t) ==
    /\ At(t, "get_shifts", "check_post")
    /\ lock' = Release(t)
    /\ LET r == Top(t).resp
       IN  IF ~check_session_valid(r)
           THEN /\ Invalid(t, "relogin")
                /\ obs' = [obs EXCEPT
                              ![t].recoveries = IF MayRelogin(Top(t)) THEN @ + 1 ELSE @]
           ELSE IF r.status # 200
           THEN Handle(t, StatusError, Top(t).flow) /\ obs' = obs
           ELSE /\ stack' = Pop(t)
                /\ ret' = [ret EXCEPT ![t] =
                              [kind |-> "value", val |-> Records(r),
                               flow |-> Top(t).flow]]
                /\ obs' = obs
    /\ UNCHANGED <<signals, creds, jar, consecutive_failures, last_activity,
                   last_successful_request, last_login_at, now>>

\* except Exception as e: on session wording, relogin and retry once; else raise
Handler(t) ==
    /\ At(t, "get_shifts", "handler")
    /\ IF MayRelogin(Top(t)) /\ SessionWording(Top(t).err)
       THEN /\ Relogin(t, "handler_relogin")
            /\ obs' = [obs EXCEPT ![t].recoveries = @ + 1]
       ELSE Leave(t, Top(t).err, Top(t).errflow) /\ obs' = obs
    /\ UNCHANGED <<signals, creds, jar, consecutive_failures, last_activity,
                   last_successful_request, last_login_at, lock, now>>

\* in the handler: if self.login(): return self.get_shifts(..., True); raise
HandlerReloginReturned(t) ==
    /\ At(t, "get_shifts", "handler_relogin")
    /\ ret[t].kind = "value"
    /\ IF ret[t].val
       THEN /\ Depth(t) < MaxDepth
            /\ stack' = Call(t, "handler_retry_call", GetShiftsFrame(RetryFlag))
            /\ ret' = [ret EXCEPT ![t] = NoRet]
       ELSE Leave(t, Top(t).err, Top(t).errflow)
    /\ UNCHANGED <<signals, creds, jar, consecutive_failures, last_activity,
                   last_successful_request, last_login_at, lock, now, obs>>

\* an exception of the retry call made in the handler leaves get_shifts
HandlerRetryRaised(t) ==
    /\ At(t, "get_shifts", "handler_retry_call")
    /\ ret[t].kind = "raise"
    /\ stack' = Pop(t)
    /\ UNCHANGED <<signals, creds, jar, consecutive_failures, last_activity,
                   last_successful_request, last_login_at, lock, now, ret, obs>>

----------------------------------------------------------------------------
(* _perform_keep_alive_action(), keep_alive() *)

KeepAliveFrame == [fn |-> "keep_alive", pc |-> "start", resp |-> NoRet, value |-> FALSE]

\* response = self._retry_request(get_url, max_retries=2, base_delay=0.5)
KeepAliveRequest(t) ==
    /\ At(t, "keep_alive", "start")
    /\ Request(t, "requested", ShortMaxRetries)
    /\ UNCHANGED <<signals, creds, jar, consecutive_failures, last_activity,
                   last_successful_request, last_login_at, lock, now, obs>>

\* with self._lock: _extend_cookie_expiration(...); self.last_activity = now
KeepAliveTouch(t) ==
    /\ At(t, "keep_alive", "requested")
    /\ ret[t].kind = "value"
    /\ lock = NoThread
    /\ lock' = t
    /\ jar' = Extended(jar)
    /\ last_activity' = now
    /\ stack' = SetTop(t, [Top(t) EXCEPT !.resp = ret[t].val, !.pc = "check"])
    /\ ret' = [ret EXCEPT ![t] = NoRet]
    /\ UNCHANGED <<signals, creds, consecutive_failures, last_successful_request, last_login_at,
                   now, obs>>

\* if self._check_session_valid(response)
KeepAliveCheck(t) ==
    /\ At(t, "keep_alive", "check")
    /\ lock' = Release(t)
    /\ stack' = SetTop(t, [Top(t) EXCEPT
                              !.resp = NoRet,
                              !.pc = IF check_session_valid(Top(t).resp)
                                     THEN "valid" ELSE "invalid"])
    /\ UNCHANGED <<signals, creds, jar, consecutive_failures, last_activity,
                   last_successful_request, last_login_at, now, ret, obs>>

\* with self._lock: last_successful_request = now; consecutive_failures = 0
KeepAliveSuccess(t) ==
    /\ At(t, "keep_alive", "valid")
    /\ lock = NoThread
    /\ lock' = t
    /\ last_successful_request' = now
    /\ consecutive_failures' = 0
    /\ obs' = [obs EXCEPT ![t] = Stamped(@)]
    /\ stack' = SetTop(t, [Top(t) EXCEPT !.pc = "return", !.value = TRUE])
    /\ UNCHANGED <<signals, creds, jar, last_activity, last_login_at, now, ret>>

\* an exchange that answers a failure with a login
KeepAliveRelogin(t) == Call(t, "return", LoginFrame)

\* logger.warning("Keep-alive action failed ..."); return False
KeepAliveFailed(t) == SetTop(t, [Top(t) EXCEPT !.pc = "return", !.value = FALSE])

\* else / except Exception: with self._lock: self.consecutive_failures += 1
KeepAliveFailure(t) ==
    /\ \/ At(t, "keep_alive", "invalid")
       \/ At(t, "keep_alive", "requested") /\ ret[t].kind = "raise"
    /\ lock = NoThread
    /\ lock' = t
    /\ consecutive_failures' = Counted(consecutive_failures)
    /\ stack' = KeepAliveFailed(t)
    /\ ret' = [ret EXCEPT ![t] = NoRet]
    /\ UNCHANGED <<signals, creds, jar, last_activity, last_successful_request, last_login_at,
                   now, obs>>

\* return True / return False
KeepAliveReturn(t) ==
    /\ At(t, "keep_alive", "return")
    /\ lock' = Release(t)
    /\ stack' = Pop(t)
    /\ ret' = [ret EXCEPT ![t] = Value(Top(t).value)]
    /\ UNCHANGED <<signals, creds, jar, consecutive_failures, last_activity,
                   last_successful_request, last_login_at, now, obs>>

----------------------------------------------------------------------------
(* test_authentication() *)

TestAuthFrame == [fn |-> "test_authentication", pc |-> "start"]

\* response = self._retry_request(get_auth_test, max_retries=2, base_delay=0.5)
TestAuthRequest(t) ==
    /\ At(t, "test_authentication", "start")
    /\ Request(t, "requested", ShortMaxRetries)
    /\ UNCHANGED <<signals, creds, jar, consecutive_failures, last_activity,
                   last_successful_request, last_login_at, lock, now, obs>>

\* return self._check_session_valid(response); except Exception: return False
TestAuthReturn(t) ==
    /\ At(t, "test_authentication", "requested")
    /\ ret[t].kind # "none"
    /\ stack' = Pop(t)
    /\ ret' = [ret EXCEPT ![t] =
                  Value(ret[t].kind = "value" /\ check_session_valid(ret[t].val))]
    /\ UNCHANGED <<signals, creds, jar, consecutive_failures, last_activity,
                   last_successful_request, last_login_at, lock, now, obs>>

----------------------------------------------------------------------------
(* set_cookies(cookies) *)

SetCookiesFrame(cs) == [fn |-> "set_cookies", pc |-> "update", cookies |-> cs]

\* self.session.cookies.update(cookies)
SetCookiesUpdate(t) ==
    /\ At(t, "set_cookies", "update")
    /\ jar' = [c \in CookieNames |-> IF c \in Top(t).cookies THEN GivenCookie ELSE jar[c]]
    /\ obs' = [obs EXCEPT ![t] = Write(@, t, "jar")]
    /\ stack' = SetTop(t, [Top(t) EXCEPT !.pc = "extend"])
    /\ UNCHANGED <<signals, creds, consecutive_failures, last_activity, last_successful_request,
                   last_login_at, lock, now, ret>>

\* self._extend_cookie_expiration(self.cookie_expiration_years)
SetCookiesExtend(t) ==
    /\ At(t, "set_cookies", "extend")
    /\ jar' = Extended(jar)
    /\ obs' = [obs EXCEPT ![t] = Write(@, t, "jar")]
    /\ stack' = Pop(t)
    /\ ret' = [ret EXCEPT ![t] = Value(TRUE)]
    /\ UNCHANGED <<signals, creds, consecutive_failures, last_activity, last_successful_request,
                   last_login_at, lock, now>>

----------------------------------------------------------------------------
(* The foreground calls: a thread at rest starts one operation *)

Begin(t, op, frame) ==
    /\ Idle(t)
    /\ stack' = [stack EXCEPT ![t] = <<frame>>]
    /\ ret' = [ret EXCEPT ![t] = NoRet]
    /\ obs' = [obs EXCEPT ![t] = NoObs(op, 0)]
    /\ UNCHANGED <<signals, creds, jar, consecutive_failures, last_activity,
                   last_successful_request, last_login_at, lock, now>>

\* scraper.get_shifts(date_from, date_to)
CallGetShifts(t) == Begin(t, "get_shifts", GetShiftsFrame(FALSE))

\* scraper.login()
CallLogin(t) == Begin(t, "login", LoginFrame)

\* scraper.keep_alive()
CallKeepAlive(t) == Begin(t, "keep_alive", KeepAliveFrame)

\* scraper.test_authentication()
CallTestAuth(t) == Begin(t, "test_authentication", TestAuthFrame)

\* scraper.set_cookies(cookies)
CallSetCookies(t) ==
    \E cs \in (SUBSET CookieNames) \ {{}} : Begin(t, "set_cookies", SetCookiesFrame(cs))

----------------------------------------------------------------------------
(* The clock *)

\* time passes between the operations of a thread
Tick ==
    /\ now < MaxTime
    /\ \A t \in Threads : Idle(t)
    /\ now' = now + 1
    /\ UNCHANGED <<signals, creds, jar, consecutive_failures, last_activity,
                   last_successful_request, last_login_at, lock, stack, ret, obs>>

----------------------------------------------------------------------------
(* The retry executor alone: _retry_request called with any max_retries *)

TypeOK ==
    /\ creds \in BOOLEAN
    /\ \A c \in CookieNames :
          /\ jar[c].value \in {NoThread, "given"} \cup Threads
          /\ jar[c].expires \in {NoExpiry} \cup Nat
          /\ jar[c].value = NoThread => jar[c] = NoCookie
    /\ consecutive_failures \in 0..MaxFailures
    /\ last_activity \in 0..MaxTime
    /\ last_successful_request \in 0..MaxTime
    /\ last_login_at \in {NoTime} \cup 0..MaxTime
    /\ lock \in {NoThread} \cup Threads
    /\ keep_alive_running \in BOOLEAN
    /\ refresh_running \in BOOLEAN
    /\ now \in 0..MaxTime

\* __init__ with enable_keep_alive=False and refresh_automatically=False
NoScheduler == keep_alive_running = FALSE /\ refresh_running = FALSE

\* __init__: no cookie, no failure, both stamps at construction time
Constructed ==
    /\ creds \in BOOLEAN
    /\ jar = EmptyJar
    /\ consecutive_failures = 0
    /\ last_activity = 0
    /\ last_successful_request = 0
    /\ last_login_at = NoTime
    /\ lock = NoThread
    /\ now = 0

CallRetryRequest(t) ==
    /\ Idle(t)
    /\ \E r \in 0..MaxRetriesArg :
        /\ stack' = [stack EXCEPT ![t] = <<RetryFrame(r)>>]
        /\ obs' = [obs EXCEPT ![t] = NoObs("_retry_request", r)]
    /\ ret' = [ret EXCEPT ![t] = NoRet]
    /\ UNCHANGED <<signals, creds, jar, consecutive_failures, last_activity,
                   last_successful_request, last_login_at, lock, now>>

InitRetry ==
    /\ Constructed
    /\ NoScheduler
    /\ stack = [t \in {"fg"} |-> <<>>]
    /\ ret = [t \in {"fg"} |-> NoRet]
    /\ obs = [t \in {"fg"} |-> NoObs("none", 0)]

NextRetry ==
    \/ Tick
    \/ \E t \in Threads : CallRetryRequest(t)
    \/ \E t \in Threads : RetryAttempt(t)
    \/ \E t \in Threads : RetrySuccess(t)
    \/ \E t \in Threads : RetryReturn(t)
    \/ \E t \in Threads : RetrySleep(t)
    \/ \E t \in Threads : RetryFailure(t)
    \/ \E t \in Threads : RetryRaise(t)

SpecRetry == InitRetry /\ [][NextRetry]_vars

\* a direct call of _retry_request by t has finished
RetryDone(t) == Idle(t) /\ obs[t].op = "_retry_request" /\ ret[t].kind # "none"

\* C6: when every attempt fails with a retryable error and max_retries = r, the
\* attempt function is invoked exactly r+1 times, there are exactly r backoff
\* sleeps, each between two attempts and none after the last failure, and the
\* call fails with TransportExhausted.
ExhaustionTakesAllAttempts ==
    \A t \in Threads :
        /\ RetryDone(t) /\ ret[t].fails = ret[t].tries
              => /\ ret[t].kind = "raise"
                 /\ ret[t].val.kind = "TransportExhausted"
                 /\ ret[t].tries = obs[t].arg + 1
                 /\ ret[t].sleeps = obs[t].arg
        /\ ~Idle(t) /\ Top(t).fn = "_retry_request"
              => /\ Top(t).sleeps = Top(t).attempt
                 /\ Top(t).tries \in {Top(t).attempt, Top(t).attempt + 1}
                 /\ Top(t).tries <= Top(t).max_retries + 1
                 /\ Top(t).pc \in {"exhausted", "raise"} => Top(t).sleeps = Top(t).tries - 1

\* a call with max_retries = 2 has failed three times and raised
WitnessExhaustion ==
    \E t \in Threads :
        /\ RetryDone(t) /\ obs[t].arg = 2
        /\ ret[t].fails = 3 /\ ret[t].tries = 3 /\ ret[t].sleeps = 2
        /\ ret[t].val.kind = "TransportExhausted"

\* C7: when the attempt function fails k <= max_retries times with retryable
\* errors and then succeeds, the call returns that response after exactly k+1
\* attempts, and consecutive_failures is 0 when it returns, whatever it was before.
SuccessAfterFailuresResets ==
    \A t \in Threads :
        /\ RetryDone(t) /\ obs[t].last.kind = "response"
              => /\ ret[t].kind = "value"
                 /\ ret[t].val = obs[t].last.val
                 /\ ret[t].tries = ret[t].fails + 1
                 /\ ret[t].fails <= obs[t].arg
        /\ At(t, "_retry_request", "return") => consecutive_failures = 0
        /\ RetryDone(t) /\ ret[t].kind = "value" => consecutive_failures = 0

\* a call that began with failures counted returned after two failed attempts
WitnessSuccessAfterFailures ==
    \E t \in Threads :
        /\ RetryDone(t) /\ ret[t].kind = "value"
        /\ ret[t].fails = 2 /\ ret[t].tries = 3 /\ obs[t].before = 2

\* C8: an attempt that fails with an error outside the retryable set is not
\* retried: no attempt and no backoff sleep follows it (one invocation and no
\* sleep when it is the first attempt), and the error reaches the caller unchanged.
OtherErrorsPropagate ==
    \A t \in Threads :
        /\ RetryDone(t) /\ obs[t].last.kind = "other"
              => /\ ret[t].kind = "raise"
                 /\ ret[t].val = obs[t].last.val
                 /\ ret[t].tries = ret[t].fails + 1
                 /\ ret[t].sleeps = ret[t].fails
        /\ ~Idle(t) /\ Top(t).fn = "_retry_request" /\ Top(t).out.kind = "other"
              => Top(t).pc \in {"other", "raise"}

\* a first attempt failed with a ValueError, which is what the caller got
WitnessOtherError ==
    \E t \in Threads :
        /\ RetryDone(t) /\ obs[t].last.kind = "other"
        /\ ret[t].tries = 1 /\ ret[t].sleeps = 0 /\ ret[t].val.kind = "ValueError"


----------------------------------------------------------------------------
(* The session manager: one foreground thread calling its operations *)

Init ==
    /\ Constructed
    /\ NoScheduler
    /\ stack = [t \in {"fg"} |-> <<>>]
    /\ ret = [t \in {"fg"} |-> NoRet]
    /\ obs = [t \in {"fg"} |-> NoObs("none", 0)]

Next ==
    \/ \E t \in Threads : CallGetShifts(t)
    \/ \E t \in Threads : CallLogin(t)
    \/ \E t \in Threads : CallKeepAlive(t)
    \/ \E t \in Threads : CallTestAuth(t)
    \/ \E t \in Threads : CallSetCookies(t)
    \/ \E t \in Threads : RetryAttempt(t)
    \/ \E t \in Threads : RetrySuccess(t)
    \/ \E t \in Threads : RetryReturn(t)
    \/ \E t \in Threads : RetrySleep(t)
    \/ \E t \in Threads : RetryFailure(t)
    \/ \E t \in Threads : RetryRaise(t)
    \/ \E t \in Threads : LoginNoCredentials(t)
    \/ \E t \in Threads : LoginClear(t)
    \/ \E t \in Threads : LoginGet(t)
    \/ \E t \in Threads : LoginPost(t)
    \/ \E t \in Threads : LoginExtend(t)
    \/ \E t \in Threads : LoginStamp(t)
    \/ \E t \in Threads : LoginReturn(t)
    \/ \E t \in Threads : EnsureStamp(t)
    \/ \E t \in Threads : EnsureCheck(t)
    \/ \E t \in Threads : EnsureLoginReturned(t)
    \/ \E t \in Threads : FetchListing(t)
    \/ \E t \in Threads : AfterGet(t)
    \/ \E t \in Threads : Caught(t)
    \/ \E t \in Threads : CheckListing(t)
    \/ \E t \in Threads : ReloginReturned(t)
    \/ \E t \in Threads : RetryCallReturned(t)
    \/ \E t \in Threads : RefreshBase(t)
    \/ \E t \in Threads : Refetch(t)
    \/ \E t \in Threads : CheckRefetch(t)
    \/ \E t \in Threads : SubmitForm(t)
    \/ \E t \in Threads : AfterPost(t)
    \/ \E t \in Threads : CheckPost(t)
    \/ \E t \in Threads : Handler(t)
    \/ \E t \in Threads : HandlerReloginReturned(t)
    \/ \E t \in Threads : HandlerRetryRaised(t)
    \/ \E t \in Threads : KeepAliveRequest(t)
    \/ \E t \in Threads : KeepAliveTouch(t)
    \/ \E t \in Threads : KeepAliveCheck(t)
    \/ \E t \in Threads : KeepAliveSuccess(t)
    \/ \E t \in Threads : KeepAliveFailure(t)
    \/ \E t \in Threads : KeepAliveReturn(t)
    \/ \E t \in Threads : TestAuthRequest(t)
    \/ \E t \in Threads : TestAuthReturn(t)
    \/ \E t \in Threads : SetCookiesUpdate(t)
    \/ \E t \in Threads : SetCookiesExtend(t)

Spec == Init /\ [][Next]_vars


\* the same, every step that can be taken being taken in the end: a thread
\* that is not at rest is running, and each request and login ends
LiveSpec == Spec /\ WF_vars(Next)

\* operation op of t has ended
Done(t, op) == Idle(t) /\ obs[t].op = op /\ ret[t].kind # "none"

\* a get_shifts call of t is running
InGetShifts(t) == ~Idle(t) /\ obs[t].op = "get_shifts"

\* C1: within one top-level get_shifts call, login is invoked to recover at most
\* once: if the recovery login fails, the call fails without another login.
OneRecoveryLogin ==
    \A t \in Threads : obs[t].op = "get_shifts" => obs[t].recoveries <= 1

\* C2: the fetch/submit flow (listing GET, form POST) runs at most twice within
\* one top-level get_shifts call: once, and once more after the login that
\* follows a listing page classified invalid.
FlowRunsAtMostTwice ==
    \A t \in Threads : obs[t].op = "get_shifts" => obs[t].flows <= 2

\* C3: get_shifts recurses at most one level deep: at most two of its frames are
\* stacked, the inner one was called with _retry_after_login set and calls
\* neither login nor get_shifts; and every get_shifts call ends, its requests
\* and logins ending.
OneLevelOfRecursion ==
    \A t \in Threads :
        /\ Depth(t) <= 2
        /\ \A i \in 1..Len(stack[t]) :
              stack[t][i].fn = "get_shifts"
                  => /\ stack[t][i].retried <=> i > 1
                     /\ stack[t][i].retried
                           => stack[t][i].pc \notin {"relogin", "retry_call",
                                                     "handler_relogin", "handler_retry_call"}

GetShiftsTerminates ==
    /\ []OneLevelOfRecursion
    /\ \A t \in {"fg"} : InGetShifts(t) ~> Done(t, "get_shifts")

\* a retry call of get_shifts is running, its own listing page fetched
WitnessRecursion ==
    \E t \in Threads :
        /\ Depth(t) = 2
        /\ Top(t).fn = "get_shifts" /\ Top(t).retried /\ Top(t).pc = "check_listing"

\* C4: get_shifts called with an empty jar and no credentials fails with
\* SessionUnavailable without sending a request; called with an empty jar and
\* credentials it logs in before it fetches the listing page, and does not
\* fetch it when that login fails.
EmptyJarGate ==
    \A t \in Threads :
        obs[t].op = "get_shifts" /\ obs[t].empty
            => /\ ~creds => /\ ~obs[t].requested
                            /\ obs[t].flows = 0
                            /\ Idle(t) => /\ ret[t].kind = "raise"
                                          /\ ret[t].val = SessionUnavailable
               /\ creds => /\ obs[t].flows >= 1 => obs[t].ensured = "ok"
                           /\ Idle(t) => obs[t].ensured # "none"
                           /\ obs[t].ensured = "failed"
                                 => /\ Idle(t)
                                    /\ ret[t].kind = "raise"
                                    /\ ret[t].val = SessionUnavailable

\* a call with an empty jar ended: without credentials, and after a failed login
WitnessNoCredentials ==
    \E t \in Threads : Done(t, "get_shifts") /\ obs[t].empty /\ ~creds

WitnessEmptyJarGate ==
    \E t \in Threads :
        /\ Done(t, "get_shifts") /\ obs[t].empty /\ creds
        /\ obs[t].ensured = "failed" /\ obs[t].requested

\* C5: a get_shifts call returns records or fails with an error of the
\* taxonomy (TransportExhausted, SessionExpired, SessionUnavailable,
\* FormNotFound, AuthenticationError), also on a non-200 status of the
\* listing GET or the form POST.
FailuresAreClassified ==
    \A t \in Threads :
        Done(t, "get_shifts") /\ ret[t].kind = "raise"
            => ret[t].val.kind \in TaxonomyKinds

\* C9: a get_shifts call or keep-alive exchange that succeeds has done the
\* success bookkeeping (failures reset, last_successful_request stamped)
\* exactly once.
OneBookkeepingPerOperation ==
    \A t \in Threads :
        \/ Done(t, "get_shifts") /\ ret[t].kind = "value"
        \/ Done(t, "keep_alive") /\ ret[t].val
        => obs[t].stamps = "once"

\* C10: every write of SessionState (jar, counter, timestamps) is made by a
\* thread holding the lock.
WritesHoldTheLock ==
    \A t \in Threads : obs[t].unlocked = {}


----------------------------------------------------------------------------
(* Two foreground threads calling get_shifts on an empty jar, followed up to *)
(* the listing GET: their _ensure_session_valid steps and logins interleave  *)

InitLogins ==
    /\ Constructed
    /\ NoScheduler
    /\ creds
    /\ stack = [t \in {"first", "second"} |-> <<>>]
    /\ ret = [t \in {"first", "second"} |-> NoRet]
    /\ obs = [t \in {"first", "second"} |-> NoObs("none", 0)]

NextLogins ==
    \/ \E t \in Threads : CallGetShifts(t)
    \/ \E t \in Threads : EnsureStamp(t)
    \/ \E t \in Threads : EnsureCheck(t)
    \/ \E t \in Threads : LoginClear(t)
    \/ \E t \in Threads : LoginGet(t)
    \/ \E t \in Threads : LoginPost(t)
    \/ \E t \in Threads : LoginExtend(t)
    \/ \E t \in Threads : LoginStamp(t)
    \/ \E t \in Threads : LoginReturn(t)
    \/ \E t \in Threads : EnsureLoginReturned(t)

SpecLogins == InitLogins /\ [][NextLogins]_vars

\* the login that _ensure_session_valid made for the get_shifts call of t has
\* returned True, and the call waits to fetch the listing page
LoggedIn(t) == At(t, "get_shifts", "fetch") /\ obs[t].ensured = "ok"

\* C11: once the logins of two concurrent get_shifts calls that both saw an
\* empty jar have both returned success, the cookies in the jar all come from
\* one and the same login, never some from one login and some from the other.
LoginsDoNotMix ==
    (\A t \in Threads : LoggedIn(t))
        => \E t \in Threads : \A c \in Held(jar) : jar[c].value = t


----------------------------------------------------------------------------
(* health() of app.py, read while a keep-alive exchange runs on another thread *)

\* consecutive_failures >= 3
WarningFailures == 3

\* time_since_success > 3600 * 24, in days
WarningDays == 1

\* 'warning': consecutive_failures >= 3 or time_since_success > 3600 * 24
warning(failures, since) == failures >= WarningFailures \/ since > WarningDays

HealthFrame == [fn |-> "health", pc |-> "start", last_success |-> NoTime,
                failures |-> 0, since |-> 0]

\* a health() that reads the fields without taking the lock
HealthUnlocked == FALSE

\* with scraper._lock:
HealthLocks == TRUE

\* GET /health
CallHealth(t) == Begin(t, "health", HealthFrame)

\* with scraper._lock: last_success = scraper.last_successful_request
HealthReadSuccess(t) ==
    /\ At(t, "health", "start")
    /\ IF HealthLocks THEN lock = NoThread /\ lock' = t ELSE lock' = lock
    /\ stack' = SetTop(t, [Top(t) EXCEPT !.pc = "failures",
                                         !.last_success = last_successful_request])
    /\ UNCHANGED <<signals, creds, jar, consecutive_failures, last_activity,
                   last_successful_request, last_login_at, now, ret, obs>>

\* consecutive_failures = scraper.consecutive_failures; time_since_success =
\* (datetime.now() - last_success).total_seconds()
HealthReadFailures(t) ==
    /\ At(t, "health", "failures")
    /\ stack' = SetTop(t, [Top(t) EXCEPT !.pc = "report",
                                         !.failures = consecutive_failures,
                                         !.since = now - Top(t).last_success])
    /\ UNCHANGED <<signals, creds, jar, consecutive_failures, last_activity,
                   last_successful_request, last_login_at, lock, now, ret, obs>>

\* the end of the with block, and return jsonify({... 'session_status': ...})
HealthReturn(t) ==
    /\ At(t, "health", "report")
    /\ lock' = Release(t)
    /\ stack' = Pop(t)
    /\ ret' = [ret EXCEPT ![t] =
                  Value([last_successful_request |-> Top(t).last_success,
                         consecutive_failures |-> Top(t).failures,
                         since |-> Top(t).since,
                         warning |-> warning(Top(t).failures, Top(t).since)])]
    /\ UNCHANGED <<signals, creds, jar, consecutive_failures, last_activity,
                   last_successful_request, last_login_at, now, obs>>

\* time passes while no thread holds the lock
Pass ==
    /\ now < MaxTime
    /\ lock = NoThread
    /\ now' = now + 1
    /\ UNCHANGED <<signals, creds, jar, consecutive_failures, last_activity,
                   last_successful_request, last_login_at, lock, stack, ret, obs>>

InitHealth ==
    /\ Constructed
    /\ NoScheduler
    /\ creds
    /\ stack = [t \in {"web", "worker"} |-> <<>>]
    /\ ret = [t \in {"web", "worker"} |-> NoRet]
    /\ obs = [t \in {"web", "worker"} |-> NoObs("none", 0)]

NextHealth ==
    \/ Pass
    \/ \E t \in {"web"} : CallHealth(t)
    \/ \E t \in Threads : HealthReadSuccess(t)
    \/ \E t \in Threads : HealthReadFailures(t)
    \/ \E t \in Threads : HealthReturn(t)
    \/ \E t \in {"worker"} : CallKeepAlive(t)
    \/ \E t \in Threads : RetryAttempt(t)
    \/ \E t \in Threads : RetrySuccess(t)
    \/ \E t \in Threads : RetryReturn(t)
    \/ \E t \in Threads : RetrySleep(t)
    \/ \E t \in Threads : RetryFailure(t)
    \/ \E t \in Threads : RetryRaise(t)
    \/ \E t \in Threads : KeepAliveRequest(t)
    \/ \E t \in Threads : KeepAliveTouch(t)
    \/ \E t \in Threads : KeepAliveCheck(t)
    \/ \E t \in Threads : KeepAliveSuccess(t)
    \/ \E t \in Threads : KeepAliveFailure(t)
    \/ \E t \in Threads : KeepAliveReturn(t)

SpecHealth == InitHealth /\ [][NextHealth]_vars

\* C12: the pair health() reports is the pair SessionState holds when its
\* critical section ends (no writer got between the two reads), and its
\* warning flag is (consecutive_failures >= 3 or more than 24 hours since
\* last_successful_request) of that pair.
HealthSnapshotConsistent ==
    \A t \in Threads :
        /\ At(t, "health", "report")
              => /\ lock = t
                 /\ Top(t).last_success = last_successful_request
                 /\ Top(t).failures = consecutive_failures
                 /\ Top(t).since = now - last_successful_request
        /\ Done(t, "health")
              => ret[t].val.warning
                    <=> \/ ret[t].val.consecutive_failures >= 3
                        \/ ret[t].val.since >= 2

\* health() has read its pair while the keep-alive exchange of the other
\* thread, which has already counted a failure, waits for the lock to stamp a
\* success made a day later than the last one
WitnessHealthSnapshot ==
    /\ At("web", "health", "report")
    /\ Top("web").failures > 0 /\ Top("web").since > 0
    /\ \/ At("worker", "_retry_request", "ok")
       \/ At("worker", "keep_alive", "valid")


----------------------------------------------------------------------------
(* The two schedulers: _keep_alive_worker and _automatic_refresh_worker on *)
(* their threads, stop_keep_alive and _stop_automatic_refresh on a third   *)

\* late: the worker woke from its sleep when the stop signal was already set
\* late: the iteration woke with the stop signal set; exchanges: the
\* keep-alive exchanges the iteration has started; skipped: it skipped its own
\* exchange; observed, streak: when observed, the number (up to
\* WarningFailures) of exchanges in a row, up to the latest one, whose response
\* was classified invalid
KeeperFrame ==
    [fn |-> "_keep_alive_worker", pc |-> "while", late |-> FALSE, exchanges |-> 0,
     skipped |-> FALSE, observed |-> FALSE, streak |-> 0]

\* late: the iteration woke with the stop signal set; logins: the logins the
\* iteration has invoked; failed: the login of the iteration before failed
RefresherFrame ==
    [fn |-> "_automatic_refresh_worker", pc |-> "while", late |-> FALSE, logins |-> 0,
     failed |-> FALSE]

\* the worker's thread has ended (is_alive() is False)
Exited(t) == stack[t] = <<>>

\* a worker that goes on whatever the signal says
StopIgnored(running) == FALSE

\* if not self.keep_alive_running: break (if not self._refresh_running: break)
StopSeen(running) == ~running

\* a worker whose handler lets the error end the thread
ErrorEndsWorker == FALSE

\* except Exception as e: logger.error(...); time.sleep(60)
ErrorRecovered == TRUE

\* a worker that ends when its login has returned False
EndsOnFailure(r) == r # Value(FALSE)

\* self.login(): the value login returns is not used
GoesOn(r) == TRUE

\* while self.keep_alive_running: the next iteration, or the end of the thread
KeeperWhile(t) ==
    /\ At(t, "_keep_alive_worker", "while")
    /\ stack' = IF keep_alive_running
                THEN SetTop(t, [Top(t) EXCEPT !.pc = "sleep", !.late = FALSE,
                                              !.exchanges = 0, !.skipped = FALSE])
                ELSE Pop(t)
    /\ ret' = [ret EXCEPT ![t] = NoRet]
    /\ UNCHANGED <<signals, creds, jar, consecutive_failures, last_activity,
                   last_successful_request, last_login_at, lock, now, obs>>

\* time.sleep(self.keep_alive_interval) returns
KeeperWake(t) ==
    /\ At(t, "_keep_alive_worker", "sleep")
    /\ stack' = SetTop(t, [Top(t) EXCEPT !.pc = "woke", !.late = ~keep_alive_running])
    /\ UNCHANGED <<signals, creds, jar, consecutive_failures, last_activity,
                   last_successful_request, last_login_at, lock, now, ret, obs>>

\* self.keep_alive_interval, in units of the clock
keep_alive_interval == 1

\* a worker that takes every cycle for due
AlwaysDue == {TRUE}

\* time_since_activity >= self.keep_alive_interval
Due == {now - last_activity >= keep_alive_interval}

\* if not self.keep_alive_running: break; if time_since_activity >= interval:
\* success = self._perform_keep_alive_action(); else: skip
KeeperCheck(t) ==
    /\ At(t, "_keep_alive_worker", "woke")
    /\ IF StopSeen(keep_alive_running)
       THEN stack' = Pop(t) /\ obs' = obs
       ELSE \E due \in Due :
               IF due
               THEN /\ stack' = [stack EXCEPT ![t] =
                                    Append([@ EXCEPT ![Len(@)].pc = "called",
                                                     ![Len(@)].exchanges = @ + 1],
                                           KeepAliveFrame)]
                    /\ obs' = [obs EXCEPT ![t] = NoObs("keep_alive", 0)]
               ELSE /\ stack' = SetTop(t, [Top(t) EXCEPT !.pc = "while",
                                                         !.skipped = TRUE])
                    /\ obs' = obs
    /\ ret' = [ret EXCEPT ![t] = NoRet]
    /\ UNCHANGED <<signals, creds, jar, consecutive_failures, last_activity,
                   last_successful_request, last_login_at, lock, now>>

\* with self._lock: if self.consecutive_failures >= 3: logger.warning(...)
KeeperWarn(t) ==
    /\ At(t, "_keep_alive_worker", "called")
    /\ lock = NoThread
    /\ lock' = t
    /\ stack' = SetTop(t, [Top(t) EXCEPT
                              !.pc = "warned",
                              !.streak = IF ~Top(t).observed THEN 0
                                         ELSE IF ret[t] # Value(FALSE) THEN 0
                                         ELSE IF obs[t].last.kind # "response" THEN 0
                                         ELSE IF @ < WarningFailures THEN @ + 1 ELSE @])
    /\ UNCHANGED <<signals, creds, jar, consecutive_failures, last_activity,
                   last_successful_request, last_login_at, now, ret, obs>>

\* the end of the with block and of the iteration
KeeperLoop(t) ==
    /\ At(t, "_keep_alive_worker", "warned")
    /\ lock' = Release(t)
    /\ stack' = SetTop(t, [Top(t) EXCEPT !.pc = "while"])
    /\ UNCHANGED <<signals, creds, jar, consecutive_failures, last_activity,
                   last_successful_request, last_login_at, now, ret, obs>>

\* a statement of the try block raises: except Exception as e
KeeperError(t) ==
    /\ At(t, "_keep_alive_worker", "woke")
    /\ stack' = IF ErrorRecovered
                THEN SetTop(t, [Top(t) EXCEPT !.pc = "cooldown"])
                ELSE Pop(t)
    /\ ret' = [ret EXCEPT ![t] = Raised(Err("ValueError", FALSE))]
    /\ UNCHANGED <<signals, creds, jar, consecutive_failures, last_activity,
                   last_successful_request, last_login_at, lock, now, obs>>

\* time.sleep(60) returns
KeeperCooldown(t) ==
    /\ At(t, "_keep_alive_worker", "cooldown")
    /\ stack' = SetTop(t, [Top(t) EXCEPT !.pc = "while"])
    /\ UNCHANGED <<signals, creds, jar, consecutive_failures, last_activity,
                   last_successful_request, last_login_at, lock, now, ret, obs>>

\* while self._refresh_running: the next iteration, or the end of the thread
RefresherWhile(t) ==
    /\ At(t, "_automatic_refresh_worker", "while")
    /\ stack' = IF refresh_running /\ GoesOn(ret[t])
                THEN SetTop(t, [Top(t) EXCEPT !.pc = "sleep", !.late = FALSE,
                                              !.logins = 0,
                                              !.failed = (ret[t] = Value(FALSE))])
                ELSE Pop(t)
    /\ ret' = [ret EXCEPT ![t] = NoRet]
    /\ UNCHANGED <<signals, creds, jar, consecutive_failures, last_activity,
                   last_successful_request, last_login_at, lock, now, obs>>

\* time.sleep(interval_seconds) returns
RefresherWake(t) ==
    /\ At(t, "_automatic_refresh_worker", "sleep")
    /\ stack' = SetTop(t, [Top(t) EXCEPT !.pc = "woke", !.late = ~refresh_running])
    /\ UNCHANGED <<signals, creds, jar, consecutive_failures, last_activity,
                   last_successful_request, last_login_at, lock, now, ret, obs>>

\* if not self._refresh_running: break; if not (username and password):
\* continue; self.login()
RefresherCheck(t) ==
    /\ At(t, "_automatic_refresh_worker", "woke")
    /\ IF StopSeen(refresh_running)
       THEN stack' = Pop(t) /\ obs' = obs
       ELSE IF ~creds
       THEN stack' = SetTop(t, [Top(t) EXCEPT !.pc = "while"]) /\ obs' = obs
       ELSE /\ stack' = [stack EXCEPT ![t] =
                            Append([@ EXCEPT ![Len(@)].pc = "while",
                                             ![Len(@)].logins = @ + 1],
                                   LoginFrame)]
            /\ obs' = [obs EXCEPT ![t] = NoObs("login", 0)]
    /\ ret' = [ret EXCEPT ![t] = NoRet]
    /\ UNCHANGED <<signals, creds, jar, consecutive_failures, last_activity,
                   last_successful_request, last_login_at, lock, now>>

StopFrame(fn, worker) == [fn |-> fn, pc |-> "start", worker |-> worker]

\* a join that waits for the worker however long it takes
JoinUnbounded == FALSE

\* self.keep_alive_thread.join(timeout=5), self._refresh_thread.join(timeout=5)
JoinBounded == TRUE

\* scraper.stop_keep_alive()
CallStopKeepAlive(t) == Begin(t, "stop_keep_alive", StopFrame("stop_keep_alive", "keeper"))

\* scraper._stop_automatic_refresh()
CallStopRefresh(t) ==
    Begin(t, "_stop_automatic_refresh", StopFrame("_stop_automatic_refresh", "refresher"))

\* if self.keep_alive_running: self.keep_alive_running = False
StopKeepAliveSignal(t) ==
    /\ At(t, "stop_keep_alive", "start")
    /\ IF keep_alive_running
       THEN /\ keep_alive_running' = FALSE
            /\ stack' = SetTop(t, [Top(t) EXCEPT !.pc = "join"])
            /\ ret' = ret
       ELSE /\ keep_alive_running' = keep_alive_running
            /\ stack' = Pop(t)
            /\ ret' = [ret EXCEPT ![t] = Value(TRUE)]
    /\ UNCHANGED <<refresh_running, creds, jar, consecutive_failures, last_activity,
                   last_successful_request, last_login_at, lock, now, obs>>

\* self._refresh_running = False
StopRefreshSignal(t) ==
    /\ At(t, "_stop_automatic_refresh", "start")
    /\ refresh_running' = FALSE
    /\ stack' = SetTop(t, [Top(t) EXCEPT !.pc = "join"])
    /\ UNCHANGED <<keep_alive_running, creds, jar, consecutive_failures, last_activity,
                   last_successful_request, last_login_at, lock, now, ret, obs>>

\* thread.join(timeout=5): returns when the worker has ended or the time is up
StopJoin(t) ==
    /\ ~Idle(t) /\ Top(t).fn \in {"stop_keep_alive", "_stop_automatic_refresh"}
    /\ Top(t).pc = "join"
    /\ Exited(Top(t).worker) \/ JoinBounded
    /\ stack' = Pop(t)
    /\ ret' = [ret EXCEPT ![t] = Value(TRUE)]
    /\ UNCHANGED <<signals, creds, jar, consecutive_failures, last_activity,
                   last_successful_request, last_login_at, lock, now, obs>>

\* the threads of a manager whose scheduler worker runs w.stack
Started(w) ==
    /\ stack = [t \in {"keeper", "refresher", "main"} |-> IF t = w.fn THEN w.stack ELSE <<>>]
    /\ ret = [t \in {"keeper", "refresher", "main"} |-> NoRet]
    /\ obs = [t \in {"keeper", "refresher", "main"} |-> NoObs("none", 0)]

\* __init__ with credentials and one scheduler enabled: enable_keep_alive=True
\* (start_keep_alive) or refresh_automatically=True (_start_automatic_refresh)
InitWorkers ==
    /\ Constructed
    /\ creds
    /\ \/ /\ keep_alive_running = TRUE
          /\ refresh_running = FALSE
          /\ Started([fn |-> "keeper", stack |-> <<KeeperFrame>>])
       \/ /\ keep_alive_running = FALSE
          /\ refresh_running = TRUE
          /\ Started([fn |-> "refresher", stack |-> <<RefresherFrame>>])

NextWorkers ==
    \/ \E t \in {"main"} : CallStopKeepAlive(t)
    \/ \E t \in {"main"} : CallStopRefresh(t)
    \/ \E t \in Threads : StopKeepAliveSignal(t)
    \/ \E t \in Threads : StopRefreshSignal(t)
    \/ \E t \in Threads : StopJoin(t)
    \/ Pass
    \/ \E t \in Threads : KeeperWhile(t)
    \/ \E t \in Threads : KeeperWake(t)
    \/ \E t \in Threads : KeeperCheck(t)
    \/ \E t \in Threads : KeeperWarn(t)
    \/ \E t \in Threads : KeeperLoop(t)
    \/ \E t \in Threads : KeeperError(t)
    \/ \E t \in Threads : KeeperCooldown(t)
    \/ \E t \in Threads : RefresherWhile(t)
    \/ \E t \in Threads : RefresherWake(t)
    \/ \E t \in Threads : RefresherCheck(t)
    \/ \E t \in Threads : RetryAttempt(t)
    \/ \E t \in Threads : RetrySuccess(t)
    \/ \E t \in Threads : RetryReturn(t)
    \/ \E t \in Threads : RetrySleep(t)
    \/ \E t \in Threads : RetryFailure(t)
    \/ \E t \in Threads : RetryRaise(t)
    \/ \E t \in Threads : KeepAliveRequest(t)
    \/ \E t \in Threads : KeepAliveTouch(t)
    \/ \E t \in Threads : KeepAliveCheck(t)
    \/ \E t \in Threads : KeepAliveSuccess(t)
    \/ \E t \in Threads : KeepAliveFailure(t)
    \/ \E t \in Threads : KeepAliveReturn(t)
    \/ \E t \in Threads : LoginClear(t)
    \/ \E t \in Threads : LoginGet(t)
    \/ \E t \in Threads : LoginPost(t)
    \/ \E t \in Threads : LoginExtend(t)
    \/ \E t \in Threads : LoginStamp(t)
    \/ \E t \in Threads : LoginReturn(t)

SpecWorkers == InitWorkers /\ [][NextWorkers]_vars


\* a step of worker thread t: of its loop, or of the duty it is carrying out
WorkerStep(t) ==
    \/ KeeperWhile(t) \/ KeeperWake(t) \/ KeeperCheck(t) \/ KeeperWarn(t)
    \/ KeeperLoop(t) \/ KeeperError(t) \/ KeeperCooldown(t)
    \/ RefresherWhile(t) \/ RefresherWake(t) \/ RefresherCheck(t)
    \/ RetryAttempt(t) \/ RetrySuccess(t) \/ RetryReturn(t) \/ RetrySleep(t)
    \/ RetryFailure(t) \/ RetryRaise(t)
    \/ KeepAliveRequest(t) \/ KeepAliveTouch(t) \/ KeepAliveCheck(t)
    \/ KeepAliveSuccess(t) \/ KeepAliveFailure(t) \/ KeepAliveReturn(t)
    \/ LoginClear(t) \/ LoginGet(t) \/ LoginPost(t) \/ LoginExtend(t)
    \/ LoginStamp(t) \/ LoginReturn(t)

\* a step of a stop operation of thread t
StopStep(t) == StopKeepAliveSignal(t) \/ StopRefreshSignal(t) \/ StopJoin(t)

\* the workers keep running: their sleeps, requests and critical sections end
LiveWorkers ==
    SpecWorkers /\ WF_vars(WorkerStep("keeper")) /\ WF_vars(WorkerStep("refresher"))

\* the thread that stops the schedulers keeps running; the workers need not
LiveStop == SpecWorkers /\ WF_vars(StopStep("main"))

\* an iteration of the keep-alive worker has failed: its exchange returned
\* False (invalid session, transport exhausted) or an error reached the handler
FailedIteration ==
    \/ At("keeper", "_keep_alive_worker", "called") /\ ret["keeper"] = Value(FALSE)
    \/ At("keeper", "_keep_alive_worker", "cooldown")

\* C13: no failed iteration ends the keep-alive loop: the worker's thread ends
\* only once the stop signal is set, and after a failed iteration the worker
\* comes to its next sleep (or, stopped meanwhile, to its end).
KeeperSurvivesFailures ==
    /\ [](Exited("keeper") => ~keep_alive_running)
    /\ FailedIteration ~> (At("keeper", "_keep_alive_worker", "sleep") \/ Exited("keeper"))

\* the worker sleeps again, not stopped, after exchanges that failed
WitnessKeeperSurvives ==
    /\ At("keeper", "_keep_alive_worker", "sleep")
    /\ keep_alive_running
    /\ consecutive_failures = MaxFailures
    /\ ret["keeper"] = NoRet


----------------------------------------------------------------------------
(* The keep-alive exchange and login, called by the foreground thread *)

\* a keep-alive exchange of t is running
InKeepAlive(t) == ~Idle(t) /\ obs[t].op = "keep_alive"

\* C14: a keep-alive exchange never re-authenticates: it runs no login, no
\* step of it removes a cookie from the jar, and it ends by returning True or
\* False, never by raising.
KeepAliveNeverLogsIn ==
    /\ [](\A t \in {"fg"} :
            /\ InKeepAlive(t)
                  => \A i \in 1..Len(stack[t]) :
                        stack[t][i].fn \in {"keep_alive", "_retry_request"}
            /\ Done(t, "keep_alive") => ret[t].kind = "value" /\ ret[t].val \in BOOLEAN)
    /\ [][\A t \in {"fg"} : InKeepAlive(t) => Held(jar) \subseteq Held(jar')]_vars

\* an exchange failed on a manager that has credentials and a cookie to lose
WitnessKeepAliveFails ==
    \E t \in Threads :
        /\ Done(t, "keep_alive") /\ ret[t] = Value(FALSE)
        /\ creds /\ JarSize(jar) > 0


\* C15: a keep-alive exchange that fails (response classified invalid, or
\* transport retries exhausted) leaves consecutive_failures exactly one greater
\* than it was when the exchange began.
FailedKeepAliveCountsOnce ==
    \A t \in Threads :
        /\ Done(t, "keep_alive") /\ ret[t] = Value(FALSE)
        /\ obs[t].last.kind \in {"response", "retryable"}
        /\ obs[t].before + 2 <= MaxFailures
        => consecutive_failures = obs[t].before + 1


----------------------------------------------------------------------------
(* Stopping the schedulers *)

\* C16: stop_keep_alive and _stop_automatic_refresh always return: the thread
\* that calls them never takes the lock, and once called they end, wherever
\* the worker is (asleep, in a request, holding the lock) and even if the
\* worker never takes another step.
StopAlwaysReturns ==
    /\ [](lock # "main")
    /\ ~Idle("main") ~> Idle("main")

\* stop_keep_alive has returned while the worker, not yet ended, holds the lock
WitnessStopReturns ==
    /\ Done("main", "stop_keep_alive")
    /\ ~keep_alive_running
    /\ lock = "keeper"


\* the worker has woken from its sleep with its stop signal already set
WokeAfterStop(t) ==
    /\ stack[t] # <<>>
    /\ Top(t).fn \in {"_keep_alive_worker", "_automatic_refresh_worker"}
    /\ Top(t).pc = "woke"
    /\ Top(t).late

\* the worker's frame of an iteration that woke after the stop has a duty
\* (a keep-alive exchange, a login) running above it
DutyAfterStop(t) ==
    /\ Len(stack[t]) > 1
    /\ stack[t][1].fn \in {"_keep_alive_worker", "_automatic_refresh_worker"}
    /\ stack[t][1].late

\* C17: a worker that wakes from its sleep once its stop signal is set starts
\* no new duty (the keep-alive worker no exchange, the relogin worker no
\* login), and then exits.
StoppedWorkerStartsNoDuty ==
    /\ [](\A t \in {"keeper", "refresher"} : ~DutyAfterStop(t))
    /\ \A t \in {"keeper", "refresher"} : WokeAfterStop(t) ~> Exited(t)

\* the keep-alive worker wakes from its sleep after stop_keep_alive
WitnessWokeAfterStop ==
    /\ WokeAfterStop("keeper")
    /\ ~keep_alive_running


----------------------------------------------------------------------------
(* Login *)

\* C18: login reports success only if, after the credentials were submitted,
\* the jar holds the primary session cookie JSESSIONID.
LoginSuccessHoldsSessionId ==
    \A t \in Threads :
        Done(t, "login") /\ ret[t] = Value(TRUE) => "JSESSIONID" \in Held(jar)


\* a frame of login that is past the test of the credentials: it has cleared
\* the jar and sends, or has sent, the requests of the login
LoginUnderWay(t) ==
    \E i \in 1..Len(stack[t]) : stack[t][i].fn = "login" /\ stack[t][i].pc # "start"

----------------------------------------------------------------------------
(* The cookie expiry extender alone: _extend_cookie_expiration run on any jar *)

SESSION_COOKIE_NAMES == {"JSESSIONID", "sessionPersist", "TS01780571"}

\* the names of the jars the extender is run on: the session cookies and one
\* cookie of another name
JarNames == SESSION_COOKIE_NAMES \cup {"lang"}

\* the expiries a cookie arrives with: none, zero, within 30 days of any day
\* of the run, and 30 days or more after any day of the run
Expiries == {NoExpiry, 0, SoonDays - 1, SoonDays + MaxTime}

Jars ==
    [JarNames -> {NoCookie} \cup {[value |-> "fg", expires |-> e] : e \in Expiries}]

\* again: the call follows a run of the extender on the same jar
ExtendFrame(again) == [fn |-> "_extend_cookie_expiration", pc |-> "start", again |-> again]

\* self._extend_cookie_expiration(self.cookie_expiration_years)
CallExtend(t) ==
    Begin(t, "_extend_cookie_expiration", ExtendFrame(Done(t, "_extend_cookie_expiration")))

\* the loop over list(self.session.cookies)
ExtendCookieExpiration(t) ==
    /\ At(t, "_extend_cookie_expiration", "start")
    /\ jar' = Extended(jar)
    /\ obs' = [obs EXCEPT ![t] = Write(@, t, "jar")]
    /\ stack' = Pop(t)
    /\ ret' = [ret EXCEPT ![t] = Value(TRUE)]
    /\ UNCHANGED <<signals, creds, consecutive_failures, last_activity,
                   last_successful_request, last_login_at, lock, now>>

InitExtend ==
    /\ creds = TRUE
    /\ jar \in Jars
    /\ consecutive_failures = 0
    /\ last_activity = 0
    /\ last_successful_request = 0
    /\ last_login_at = NoTime
    /\ lock = NoThread
    /\ now \in 0..MaxTime
    /\ NoScheduler
    /\ stack = [t \in {"fg"} |-> <<>>]
    /\ ret = [t \in {"fg"} |-> NoRet]
    /\ obs = [t \in {"fg"} |-> NoObs("none", 0)]

NextExtend ==
    \/ \E t \in Threads : CallExtend(t)
    \/ \E t \in Threads : ExtendCookieExpiration(t)
    \/ Pass

SpecExtend == InitExtend /\ [][NextExtend]_vars

\* the step of t is a run of the extender
ExtenderRuns(t) == At(t, "_extend_cookie_expiration", "start") /\ Idle(t)'

\* C20: after the extender runs at time now, every cookie of the jar whose
\* name is session-identifying (JSESSIONID, sessionPersist, TS01780571), or
\* whose expiry was absent or zero, or less than 30 days after now, has the
\* expiry now + N years.
ExtenderRewritesSessionCookies ==
    [][\A t \in {"fg"} :
         ExtenderRuns(t)
            => \A c \in Held(jar) :
                 \/ c \in SESSION_COOKIE_NAMES
                 \/ jar[c].expires \in {NoExpiry, 0}
                 \/ jar[c].expires < now + SoonDays
                 => jar'[c].expires = FutureTimestamp(now)]_vars


\* C21: the extender is idempotent: a second run right after a first one, at
\* the time it then reads (the same or a later one), leaves every cookie with
\* the expiry the first run gave it.
ExtenderIdempotent ==
    [][\A t \in {"fg"} : ExtenderRuns(t) /\ Top(t).again => jar' = jar]_vars


----------------------------------------------------------------------------
(* The table extraction engine alone: the choice of the data table,
   _parse_table and _parse_shift_row run on any document *)

\* the most rows a section of a table holds
MaxRows == 2

\* the most tables of class clsTableControl a page holds
MaxTables == 2

\* table = None
NoTable == 0

\* a table of class clsTableControl: whether it has a <tbody>, the <tr> inside
\* the <tbody>, and the <tr> outside it (in a <thead>, or directly in the
\* table when it has no <tbody>)
Tables ==
    {tbl \in [tbody : BOOLEAN, body : 0..MaxRows, other : 0..MaxRows] :
        ~tbl.tbody => tbl.body = 0}

\* all_tables: the tables of the page in document order
TableLists == UNION {[1..n -> Tables] : n \in 1..MaxTables}

\* rows = tbl.find_all('tr'); if tbody: rows = tbody.find_all('tr')
RowCount(tbl) == IF tbl.tbody THEN tbl.body ELSE tbl.other

\* len(table.find_all('tr')): every <tr> under the table
AllRowCount(tbl) == tbl.body + tbl.other

\* the loop over all_tables from its i-th table on, table being the index of
\* the table chosen so far:
\* if not table or len(rows) > len(table.find_all('tr')): table = tbl
RECURSIVE SelectTable(_, _, _)
SelectTable(all_tables, i, table) ==
    IF i > Len(all_tables)
    THEN table
    ELSE SelectTable(all_tables, i + 1,
            IF table = NoTable \/ RowCount(all_tables[i]) > AllRowCount(all_tables[table])
            THEN i
            ELSE table)

SelectFrame(all_tables) == [fn |-> "select_table", pc |-> "for", all_tables |-> all_tables]

\* all_tables = soup.find_all('table', class_='clsTableControl'), not empty
CallSelectTable(t) ==
    \E all_tables \in TableLists : Begin(t, "select_table", SelectFrame(all_tables))

\* for i, tbl in enumerate(all_tables, 1): ...; the table handed to _parse_table
SelectTableReturn(t) ==
    /\ At(t, "select_table", "for")
    /\ stack' = SetTop(t, [Top(t) EXCEPT !.pc = "done"])
    /\ ret' = [ret EXCEPT ![t] = Value(SelectTable(Top(t).all_tables, 1, NoTable))]
    /\ UNCHANGED <<signals, creds, jar, consecutive_failures, last_activity,
                   last_successful_request, last_login_at, lock, now, obs>>

\* the numbers of <td> a row has: too few for a record, the fewest a record
\* needs, one more, and enough for the pay elements and for every column
CellCounts == {2, 3, 4, 15, 20}

\* the texts of a row's first cell: none, the placeholder, a day of the week
FirstCells == {"", "&nbsp;", "Mon"}

\* a <tr>: whether it has a <td class="vrTableHeader">, whether its text
\* holds "total", its number of <td>, the text of its first cell, and whether
\* its optional contents (text in column 3, titled links and spans) are there
Rows == [header : BOOLEAN, total : BOOLEAN, n : CellCounts, first : FirstCells, filled : BOOLEAN]

\* the rows of the tables _parse_table is run on
TableRows == {row \in Rows : row.n \in {2, 3} /\ ~row.filled}

RowLists == UNION {[1..n -> TableRows] : n \in 0..MaxRows}

\* the rows a table with a <tbody> holds outside it
OtherRows ==
    {<<>>} \cup {<<row>> : row \in {r \in TableRows : r.n = 3 /\ r.first = "Mon" /\ ~r.total}}

\* the table handed to _parse_table: whether it has a <tbody>, the <tr>
\* inside the <tbody> and the <tr> outside it
ParseTables ==
    {[tbody |-> FALSE, body |-> <<>>, other |-> rs] : rs \in RowLists}
        \cup {[tbody |-> TRUE, body |-> rs, other |-> os] : rs \in RowLists, os \in OtherRows}

\* rows = tbody.find_all('tr') if tbody else table.find_all('tr')
RowsOf(table) == IF table.tbody THEN table.body ELSE table.other \o table.body

\* a first cell that is never taken for empty
NeverEmpty(text) == FALSE

\* not day_of_week or day_of_week in ['', '&nbsp;']
IsEmptyCell(text) == text \in {"", "&nbsp;"}

\* the keys of the record by column: column k is Columns[k + 1]
Columns ==
    <<"dayOfWeek", "date", "workHours", "workHoursExtra", "note", "clockIn",
      "timeEntered", "calculationMethod", "totalHours", "absenceSupplement",
      "hoursUnits", "remark", "statusShift", "statusTime">>

\* the keys of the titles found in columns 6, 12 and 13
Titles(row) ==
    IF ~row.filled THEN {}
    ELSE {"timeEnteredTitle" : k \in {k \in {7} : k <= row.n}}
            \cup {"statusShiftTitle" : k \in {k \in {13} : k <= row.n}}
            \cup {"statusTimeTitle" : k \in {k \in {14} : k <= row.n}}

\* the keys of shift: if len(tds) > k: shift[...] = ...; workHoursExtra only
\* if its cell has text; payElements and rawText always
Fields(row) ==
    {Columns[k] : k \in {k \in 1..Len(Columns) : k <= row.n /\ (k = 4 => row.filled)}}
        \cup {"payElements", "rawText"} \cup Titles(row)

\* return None
NoRecord == [row |-> 0, fields |-> {}]

\* _parse_shift_row(row) on the i-th row
parse_shift_row(row, i) ==
    IF row.n < 3 THEN NoRecord
    ELSE IF row.header THEN NoRecord
    ELSE IF IsEmptyCell(row.first) THEN NoRecord
    ELSE [row |-> i, fields |-> Fields(row)]

\* the first loop of _parse_table: is the row appended to data_rows
IsDataRow(row) == ~row.header /\ ~row.total /\ ~(row.n < 3)

\* _parse_table from the i-th row on: the shifts of the data rows whose
\* _parse_shift_row is not None, in order
RECURSIVE parse_table(_, _)
parse_table(rows, i) ==
    IF i > Len(rows) THEN <<>>
    ELSE IF IsDataRow(rows[i]) /\ parse_shift_row(rows[i], i) # NoRecord
    THEN <<parse_shift_row(rows[i], i)>> \o parse_table(rows, i + 1)
    ELSE parse_table(rows, i + 1)

ParseTableFrame(table) == [fn |-> "_parse_table", pc |-> "start", table |-> table]

ParseRowFrame(row) == [fn |-> "_parse_shift_row", pc |-> "start", row |-> row]

\* shifts = self._parse_table(table)
CallParseTable(t) ==
    \E table \in ParseTables : Begin(t, "_parse_table", ParseTableFrame(table))

\* return shifts
ParseTableReturn(t) ==
    /\ At(t, "_parse_table", "start")
    /\ stack' = SetTop(t, [Top(t) EXCEPT !.pc = "done"])
    /\ ret' = [ret EXCEPT ![t] = Value(parse_table(RowsOf(Top(t).table), 1))]
    /\ UNCHANGED <<signals, creds, jar, consecutive_failures, last_activity,
                   last_successful_request, last_login_at, lock, now, obs>>

\* shift = self._parse_shift_row(row)
CallParseShiftRow(t) ==
    \E row \in Rows : Begin(t, "_parse_shift_row", ParseRowFrame(row))

\* return shift, or None
ParseShiftRowReturn(t) ==
    /\ At(t, "_parse_shift_row", "start")
    /\ stack' = SetTop(t, [Top(t) EXCEPT !.pc = "done"])
    /\ ret' = [ret EXCEPT ![t] = Value(parse_shift_row(Top(t).row, 1))]
    /\ UNCHANGED <<signals, creds, jar, consecutive_failures, last_activity,
                   last_successful_request, last_login_at, lock, now, obs>>

\* the operation of the extraction engine is over
ExtractDone(t) ==
    /\ ~Idle(t)
    /\ Top(t).pc = "done"
    /\ stack' = Pop(t)
    /\ UNCHANGED <<signals, creds, jar, consecutive_failures, last_activity,
                   last_successful_request, last_login_at, lock, now, ret, obs>>

InitExtract ==
    /\ Constructed
    /\ creds = TRUE
    /\ NoScheduler
    /\ stack = [t \in {"fg"} |-> <<>>]
    /\ ret = [t \in {"fg"} |-> NoRet]
    /\ obs = [t \in {"fg"} |-> NoObs("none", 0)]

NextExtract ==
    \/ \E t \in Threads : CallSelectTable(t)
    \/ \E t \in Threads : SelectTableReturn(t)
    \/ \E t \in Threads : CallParseTable(t)
    \/ \E t \in Threads : ParseTableReturn(t)
    \/ \E t \in Threads : CallParseShiftRow(t)
    \/ \E t \in Threads : ParseShiftRowReturn(t)
    \/ \E t \in Threads : ExtractDone(t)

SpecExtract == InitExtract /\ [][NextExtract]_vars

\* C22: among the tables carrying the marker class the extractor selects one
\* with the greatest row count (the rows of its body section if it has one,
\* all its rows otherwise), whichever table comes first in the document.
SelectsGreatestRowCount ==
    \A t \in Threads :
        At(t, "select_table", "done")
            => LET all_tables == Top(t).all_tables
               IN  \A j \in 1..Len(all_tables) :
                      RowCount(all_tables[ret[t].val]) >= RowCount(all_tables[j])


\* the row yields a record: it is not a header row, not a total row, has at
\* least 3 cells and a first cell that is not empty
Qualifies(row) ==
    ~row.header /\ ~row.total /\ row.n >= 3 /\ row.first \notin {"", "&nbsp;"}

Beyond(k) == {Columns[c] : c \in (k + 1)..Len(Columns)} \cup {"payElements"}

\* C24: a data row with exactly 3 cells yields a record with day-of-week, date
\* and work-hours and no field of the column contract beyond the cells it has
\* (note, clock-in, time-entered, ..., pay elements).
ShortRowHasThreeFields ==
    \A t \in Threads :
        At(t, "_parse_shift_row", "done") /\ Top(t).row.n = 3 /\ Qualifies(Top(t).row)
            => /\ {"dayOfWeek", "date", "workHours"} \subseteq ret[t].val.fields
               /\ ret[t].val.fields \cap Beyond(3) = {}


----------------------------------------------------------------------------
(* The inbound operation retrieve_shifts of app.py *)

\* the requests: the method, whether the content type is JSON, what the body
\* of a JSON request parses to, and whether dateFrom and dateTo are given
\* (in the query string of a GET, in the body of a POST)
Requests ==
    [method : {"GET", "POST"}, is_json : BOOLEAN,
     json : {"object", "array", "malformed"}, dateFrom : BOOLEAN, dateTo : BOOLEAN]

\* request.args.get(name), or
\* request.form.get(name) or request.json.get(name) if request.is_json else None:
\* whether the parameter has a value; request.json raises BadRequest on a body
\* that is not JSON, and .get raises AttributeError on one that is no object
Param(req, given) ==
    IF req.method = "GET" THEN Value(given)
    ELSE IF ~req.is_json THEN Value(FALSE)
    ELSE IF req.json = "object" THEN Value(given)
    ELSE Raised(req.json)

\* a dateFrom or dateTo of the request is missing
DateMissing(req) == ~req.dateFrom \/ ~req.dateTo

\* status: the status code of the response, 0 until it is made; invoked:
\* get_shifts was called
RetrieveShiftsFrame(req) ==
    [fn |-> "retrieve_shifts", pc |-> "start", request |-> req, status |-> 0,
     invoked |-> FALSE]

\* a request for /retrieve_shifts arrives
CallRetrieveShifts(t) ==
    \E req \in Requests : Begin(t, "retrieve_shifts", RetrieveShiftsFrame(req))

\* the response is made with status code
Respond(t, code) == SetTop(t, [Top(t) EXCEPT !.pc = "done", !.status = code])

\* date_from, date_to = ...; if not date_from or not date_to: return ..., 400;
\* shifts = scraper.get_shifts(date_from, date_to); except Exception: 500
RetrieveShiftsValidate(t) ==
    /\ At(t, "retrieve_shifts", "start")
    /\ LET req == Top(t).request
           date_from == Param(req, req.dateFrom)
           date_to == Param(req, req.dateTo)
       IN  stack' =
              IF date_from.kind = "raise" \/ date_to.kind = "raise"
              THEN Respond(t, 500)
              ELSE IF ~date_from.val \/ ~date_to.val
              THEN Respond(t, 400)
              ELSE Call(t, "called", [GetShiftsFrame(FALSE) EXCEPT !.pc = "ensure"])
    /\ UNCHANGED <<signals, creds, jar, consecutive_failures, last_activity,
                   last_successful_request, last_login_at, lock, now, ret, obs>>

\* return jsonify(success=True, shifts=...), or except Exception: ..., 500
RetrieveShiftsRespond(t) ==
    /\ At(t, "retrieve_shifts", "called")
    /\ stack' = SetTop(t, [Top(t) EXCEPT !.pc = "done", !.invoked = TRUE,
                                         !.status = IF ret[t].kind = "raise"
                                                    THEN 500 ELSE 200])
    /\ UNCHANGED <<signals, creds, jar, consecutive_failures, last_activity,
                   last_successful_request, last_login_at, lock, now, ret, obs>>

\* the response is sent
RetrieveShiftsSent(t) ==
    /\ At(t, "retrieve_shifts", "done")
    /\ stack' = Pop(t)
    /\ UNCHANGED <<signals, creds, jar, consecutive_failures, last_activity,
                   last_successful_request, last_login_at, lock, now, ret, obs>>

\* the application started without config.py: no credentials, no cookies
InitInbound ==
    /\ Constructed
    /\ creds = FALSE
    /\ NoScheduler
    /\ stack = [t \in {"web"} |-> <<>>]
    /\ ret = [t \in {"web"} |-> NoRet]
    /\ obs = [t \in {"web"} |-> NoObs("none", 0)]

NextInbound ==
    \/ \E t \in Threads : CallRetrieveShifts(t)
    \/ \E t \in Threads : RetrieveShiftsValidate(t)
    \/ \E t \in Threads : EnsureStamp(t)
    \/ \E t \in Threads : EnsureCheck(t)
    \/ \E t \in Threads : RetrieveShiftsRespond(t)
    \/ \E t \in Threads : RetrieveShiftsSent(t)

SpecInbound == InitInbound /\ [][NextInbound]_vars

\* C25: a retrieve_shifts request with dateFrom or dateTo missing is answered
\* with status 400, and get_shifts is not invoked for it.
MissingDateIsRejected ==
    \A t \in Threads :
        At(t, "retrieve_shifts", "done") /\ DateMissing(Top(t).request)
            => Top(t).status = 400 /\ ~Top(t).invoked


----------------------------------------------------------------------------
(* The same-page refresh of get_shifts *)

\* an execution of the get_shifts flow whose listing page was valid but had
\* no form, and which is past the handling of the missing form: it goes on to
\* submit the form, or its failure has reached the handler
FormHandled(f) ==
    /\ f.fn = "get_shifts"
    /\ f.noform
    /\ f.pc \notin {"refresh", "refreshed", "refetched", "check_refetch"}

\* C26: when the listing page is valid but has no form, one execution of the
\* flow attempts exactly one re-fetch of the listing page, before any login,
\* and then goes on to submit the form (form found, no login) or fails with
\* FormNotFound (form still absent).
ExactlyOneRefetch ==
    \A t \in Threads :
        \A i \in 1..Len(stack[t]) :
            LET f == stack[t][i]
            IN  /\ f.fn = "get_shifts" => f.refetches <= 1
                /\ FormHandled(f)
                      => /\ f.refetches = 1
                         /\ f.pc = "handler" => f.err = FormNotFound


----------------------------------------------------------------------------
(* Network I/O and the lock *)

\* a request of t is in progress: an attempt of _retry_request or its backoff
\* sleep, or the GET or the POST of login
InFlight(t) ==
    \/ At(t, "_retry_request", "try")
    \/ At(t, "_retry_request", "sleep")
    \/ At(t, "login", "get")
    \/ At(t, "login", "post")

\* C27: no thread holds the lock while a request of its get_shifts,
\* keep-alive, login or test_authentication (backoff sleeps included) is in
\* progress: the lock is then free or held by another thread.
NoRequestUnderLock ==
    \A t \in Threads : InFlight(t) => lock # t

\* get_shifts, which took the lock before its request, sleeps between two
\* attempts with the lock free
WitnessRequestLockFree ==
    \E t \in Threads :
        /\ At(t, "_retry_request", "sleep")
        /\ obs[t].op = "get_shifts"
        /\ lock = NoThread


----------------------------------------------------------------------------
(* The keep-alive loop beside foreground calls of get_shifts *)

\* the keep-alive scheduler runs on a manager without credentials and
\* cookies; thread fg makes the foreground calls
InitKeeper ==
    /\ Constructed
    /\ creds = FALSE
    /\ keep_alive_running = TRUE
    /\ refresh_running = FALSE
    /\ stack = [t \in {"keeper", "fg"} |-> IF t = "keeper" THEN <<KeeperFrame>> ELSE <<>>]
    /\ ret = [t \in {"keeper", "fg"} |-> NoRet]
    /\ obs = [t \in {"keeper", "fg"} |-> NoObs("none", 0)]

NextKeeper ==
    \/ Pass
    \/ \E t \in {"fg"} : CallGetShifts(t)
    \/ \E t \in Threads : EnsureStamp(t)
    \/ \E t \in Threads : EnsureCheck(t)
    \/ \E t \in Threads : KeeperWhile(t)
    \/ \E t \in Threads : KeeperWake(t)
    \/ \E t \in Threads : KeeperCheck(t)
    \/ \E t \in Threads : KeeperWarn(t)
    \/ \E t \in Threads : KeeperLoop(t)
    \/ \E t \in Threads : RetryAttempt(t)
    \/ \E t \in Threads : RetrySuccess(t)
    \/ \E t \in Threads : RetryReturn(t)
    \/ \E t \in Threads : RetrySleep(t)
    \/ \E t \in Threads : RetryFailure(t)
    \/ \E t \in Threads : RetryRaise(t)
    \/ \E t \in Threads : KeepAliveRequest(t)
    \/ \E t \in Threads : KeepAliveTouch(t)
    \/ \E t \in Threads : KeepAliveCheck(t)
    \/ \E t \in Threads : KeepAliveSuccess(t)
    \/ \E t \in Threads : KeepAliveFailure(t)
    \/ \E t \in Threads : KeepAliveReturn(t)

SpecKeeper == InitKeeper /\ [][NextKeeper]_vars

\* the step is the check the keep-alive worker makes after its sleep
KeeperChecks(t) == At(t, "_keep_alive_worker", "woke") /\ stack'[t] # stack[t]

\* C28: in each cycle of the running keep-alive loop the worker, after its
\* sleep, starts a keep-alive exchange if and only if the time since
\* last_activity is at least the interval, and at most one per cycle; a cycle
\* that follows a get_shifts which set last_activity within the interval is
\* skipped.
ExchangeIffDue ==
    /\ [](\A t \in {"keeper"} : ~Idle(t) => stack[t][1].exchanges <= 1)
    /\ [][\A t \in {"keeper"} :
            KeeperChecks(t)
                => IF now - last_activity >= keep_alive_interval
                   THEN /\ Len(stack'[t]) = 2
                        /\ stack'[t][2].fn = "keep_alive"
                        /\ stack'[t][1].exchanges = 1
                   ELSE /\ Len(stack'[t]) = 1
                        /\ stack'[t][1].skipped
                        /\ stack'[t][1].exchanges = 0]_vars

\* the worker, which has not yet made an exchange, skips the one of a cycle in
\* which a get_shifts has just set last_activity
WitnessExchangeSkipped ==
    /\ stack["keeper"] # <<>>
    /\ stack["keeper"][1].skipped
    /\ obs["keeper"].op = "none"
    /\ obs["fg"].op = "get_shifts"
    /\ now >= keep_alive_interval
    /\ last_activity = now


----------------------------------------------------------------------------
(* The automatic relogin loop *)

\* the step is the check the relogin worker makes after its sleep
RefresherChecks(t) ==
    At(t, "_automatic_refresh_worker", "woke") /\ stack'[t] # stack[t]

----------------------------------------------------------------------------
(* The extender after the exchanges *)

\* C30: every request that returns a response, in get_shifts, keep_alive,
\* test_authentication and login, is followed by a run of the extender before
\* the operation returns: when the operation has returned, no cookie a
\* response has set is left with the expiry it came with.
ExtendedAfterEveryExchange ==
    \A t \in Threads :
        /\ \E op \in {"get_shifts", "keep_alive", "test_authentication", "login"} : Done(t, op)
        /\ obs[t].requested
        => \A c \in Held(jar) : jar[c].expires # NoExpiry


----------------------------------------------------------------------------
(* The classifier _check_session_valid on its own *)

\* the status codes of a response: success, the two the classifier tests, and
\* one that raise_for_status rejects
Statuses == {200, 401, 403, 404}

\* every response, by the features the code inspects; a text that holds
\* 'login.jsp' or 'VSLogin.jsp' holds 'login'
Pages ==
    {r \in [size : {"tiny", "small", "big"}, status : Statuses,
            url : {"data", "login", "other"}, loginWord : BOOLEAN,
            loginJsp : BOOLEAN, user : BOOLEAN, pass : BOOLEAN, table : BOOLEAN,
            form : BOOLEAN, loginForm : {FALSE}, credFields : BOOLEAN,
            cookies : {{}}] : r.loginJsp => r.loginWord}

CheckFrame(r) == [fn |-> "_check_session_valid", pc |-> "start", response |-> r]

\* self._check_session_valid(response)
CallCheckSessionValid(t) ==
    \E r \in Pages : Begin(t, "_check_session_valid", CheckFrame(r))

\* return True, or False
CheckSessionValidReturn(t) ==
    /\ At(t, "_check_session_valid", "start")
    /\ stack' = SetTop(t, [Top(t) EXCEPT !.pc = "done"])
    /\ ret' = [ret EXCEPT ![t] = Value(check_session_valid(Top(t).response))]
    /\ UNCHANGED <<signals, creds, jar, consecutive_failures, last_activity,
                   last_successful_request, last_login_at, lock, now, obs>>

NextClassify ==
    \/ \E t \in Threads : CallCheckSessionValid(t)
    \/ \E t \in Threads : CheckSessionValidReturn(t)
    \/ \E t \in Threads : ExtractDone(t)

SpecClassify == InitExtract /\ [][NextClassify]_vars

\* the classifier has returned its verdict on the response
Classified(t) == At(t, "_check_session_valid", "done")

\* C31: a response with status 401 or 403, or whose final URL is the login
\* page, is classified invalid whatever its body holds, the markers of the
\* timesheet page included.
InvalidityRulesFirst ==
    \A t \in Threads :
        Classified(t) /\ (Top(t).response.status \in {401, 403} \/ Top(t).response.url = "login")
            => ret[t] = Value(FALSE)

\* a long 401 response with the data table and the form, at the URL of the
\* timesheet page, was classified invalid
WitnessInvalidityRulesFirst ==
    \E t \in Threads :
        /\ Classified(t)
        /\ Top(t).response.status = 401
        /\ Top(t).response.size = "big"
        /\ Top(t).response.url = "data"
        /\ Top(t).response.table
        /\ Top(t).response.form
        /\ ~Top(t).response.loginWord
        /\ ret[t] = Value(FALSE)

\* C32: a response shorter than the size threshold that carries no login
\* indicator, with a status other than 401 and 403 and a final URL that is not
\* the login page, is classified valid.
ShortWithoutLoginIsValid ==
    \A t \in Threads :
        /\ Classified(t)
        /\ Top(t).response.size # "big"
        /\ ~Top(t).response.loginWord
        /\ Top(t).response.status \notin {401, 403}
        /\ Top(t).response.url # "login"
        => ret[t] = Value(TRUE)

\* C33: a response of at least the threshold size, with status 200 and a final
\* URL that is not the login page, whose body holds the login page marker and
\* only one of the two credential-field names, is not classified invalid.
OneFieldNameIsNotInvalid ==
    \A t \in Threads :
        /\ Classified(t)
        /\ Top(t).response.size = "big"
        /\ Top(t).response.status = 200
        /\ Top(t).response.url # "login"
        /\ Top(t).response.loginJsp
        /\ Top(t).response.user # Top(t).response.pass
        => ret[t] = Value(TRUE)

\* C34: the verification of login's POST response accepts a response if and
\* only if _check_session_valid classifies the same response valid.
LoginVerifiesAsClassifier ==
    \A t \in Threads :
        Classified(t) => (LoginAccepted(Top(t).response) <=> ret[t] = Value(TRUE))


----------------------------------------------------------------------------
(* start_keep_alive and stop_keep_alive beside the keep-alive worker *)

StartFrame == [fn |-> "start_keep_alive", pc |-> "start"]

\* scraper.start_keep_alive(), enable_keep_alive being True
CallStartKeepAlive(t) == Begin(t, "start_keep_alive", StartFrame)

\* if self.keep_alive_thread is None or not self.keep_alive_thread.is_alive():
\*     self.keep_alive_running = True; the thread is made and started
StartKeepAlive(t) ==
    /\ At(t, "start_keep_alive", "start")
    /\ IF Exited("keeper")
       THEN /\ keep_alive_running' = TRUE
            /\ stack' = [stack EXCEPT ![t] = <<>>, !["keeper"] = <<KeeperFrame>>]
            /\ ret' = [ret EXCEPT ![t] = Value(TRUE), !["keeper"] = NoRet]
       ELSE /\ keep_alive_running' = keep_alive_running
            /\ stack' = Pop(t)
            /\ ret' = [ret EXCEPT ![t] = Value(TRUE)]
    /\ UNCHANGED <<refresh_running, creds, jar, consecutive_failures, last_activity,
                   last_successful_request, last_login_at, lock, now, obs>>

\* __init__ with enable_keep_alive=True has started the worker; thread main
\* calls start_keep_alive and stop_keep_alive
InitStart ==
    /\ Constructed
    /\ creds = TRUE
    /\ keep_alive_running = TRUE
    /\ refresh_running = FALSE
    /\ stack = [t \in {"keeper", "main"} |-> IF t = "keeper" THEN <<KeeperFrame>> ELSE <<>>]
    /\ ret = [t \in {"keeper", "main"} |-> NoRet]
    /\ obs = [t \in {"keeper", "main"} |-> NoObs("none", 0)]

NextStart ==
    \/ Pass
    \/ \E t \in {"main"} : CallStartKeepAlive(t)
    \/ \E t \in {"main"} : CallStopKeepAlive(t)
    \/ \E t \in Threads : StartKeepAlive(t)
    \/ \E t \in Threads : StopKeepAliveSignal(t)
    \/ \E t \in Threads : StopJoin(t)
    \/ \E t \in Threads : KeeperWhile(t)
    \/ \E t \in Threads : KeeperWake(t)
    \/ \E t \in Threads : KeeperCheck(t)
    \/ \E t \in Threads : KeeperWarn(t)
    \/ \E t \in Threads : KeeperLoop(t)
    \/ \E t \in Threads : KeeperError(t)
    \/ \E t \in Threads : KeeperCooldown(t)
    \/ \E t \in Threads : RetryAttempt(t)
    \/ \E t \in Threads : RetrySuccess(t)
    \/ \E t \in Threads : RetryReturn(t)
    \/ \E t \in Threads : RetrySleep(t)
    \/ \E t \in Threads : RetryFailure(t)
    \/ \E t \in Threads : RetryRaise(t)
    \/ \E t \in Threads : KeepAliveRequest(t)
    \/ \E t \in Threads : KeepAliveTouch(t)
    \/ \E t \in Threads : KeepAliveCheck(t)
    \/ \E t \in Threads : KeepAliveSuccess(t)
    \/ \E t \in Threads : KeepAliveFailure(t)
    \/ \E t \in Threads : KeepAliveReturn(t)

SpecStart == InitStart /\ [][NextStart]_vars

\* C35: once start_keep_alive has returned, and until the next call of
\* start_keep_alive or stop_keep_alive, the keep-alive scheduler is running:
\* the running flag is set and the worker's thread is alive.
StartedMeansRunning ==
    \A t \in {"main"} :
        Done(t, "start_keep_alive") => keep_alive_running /\ ~Exited("keeper")


----------------------------------------------------------------------------
(* The lock and the functions called inside its critical sections *)

\* an extender that takes the lock for its work on the jar
ExtenderLocks == TRUE

\* _extend_cookie_expiration has no with self._lock block
ExtenderAcquires == FALSE

\* t is at a with self._lock statement: its next step acquires the lock
Entering(t) ==
    \/ At(t, "_retry_request", "ok")
    \/ At(t, "_retry_request", "exhausted")
    \/ At(t, "_retry_request", "other")
    \/ At(t, "_retry_request", "fallthrough")
    \/ At(t, "login", "stamp")
    \/ At(t, "get_shifts", "ensure")
    \/ At(t, "get_shifts", "fetched") /\ ret[t].kind = "value"
    \/ At(t, "get_shifts", "refetched") /\ ret[t].kind = "value"
    \/ At(t, "get_shifts", "posted") /\ ret[t].kind = "value"
    \/ At(t, "keep_alive", "requested") /\ ret[t].kind # "none"
    \/ At(t, "keep_alive", "valid")
    \/ At(t, "keep_alive", "invalid")
    \/ At(t, "_keep_alive_worker", "called")

\* t is in a critical section that calls the extender: the ones after the
\* requests of get_shifts and after the keep-alive request
ExtendsInside(t) ==
    /\ lock = t
    /\ \/ At(t, "get_shifts", "check_listing")
       \/ At(t, "get_shifts", "check_refetch")
       \/ At(t, "get_shifts", "check_post")
       \/ At(t, "keep_alive", "check")

\* t, holding the lock, acquires it: at a with statement of its own, or in
\* the extender it calls
SelfAcquire(t) == lock = t /\ (Entering(t) \/ (ExtenderAcquires /\ ExtendsInside(t)))

Resets ==
    \/ consecutive_failures > 0 /\ consecutive_failures' = 0
    \/ last_successful_request' # last_successful_request

\* the step of t is the success bookkeeping of an exchange whose response
\* _check_session_valid classifies valid, or that of a successful login
ValidExchange(t) ==
    \/ At(t, "login", "stamp")
    \/ At(t, "keep_alive", "valid")
    \/ At(t, "_retry_request", "ok") /\ check_session_valid(Top(t).out.val)
    \/ At(t, "get_shifts", "posted") /\ ret[t].kind = "value" /\ check_session_valid(ret[t].val)

\* C37: consecutive_failures is reset to 0, and last_successful_request is
\* stamped, only by an exchange whose response is classified valid or by a
\* successful login; never on a response classified invalid.
ResetOnlyOnValidResponse ==
    [][Resets => \E t \in Threads : ValidExchange(t)]_vars


\* login of t, called on its own with credentials, has returned False
LoginFailed(t) == Done(t, "login") /\ ret[t] = Value(FALSE) /\ CredentialsGiven

\* C38: a login with credentials empties the jar before its first request, and
\* after a login that failed no cookie from before the call is left in the
\* jar: none that set_cookies had stored, none whose expiry had been extended.
LoginDropsOldCookies ==
    \A t \in Threads :
        /\ At(t, "login", "get") => jar = EmptyJar
        /\ LoginFailed(t)
              => \A c \in Held(jar) : jar[c].value # "given" /\ jar[c].expires = NoExpiry

\* a login has failed on a manager that held cookies from set_cookies, and
\* the jar holds only what the login's own response set
WitnessFailedLoginDropsCookies ==
    \E t \in Threads :
        /\ LoginFailed(t)
        /\ ~obs[t].empty
        /\ obs[t].requested
        /\ Held(jar) = {"JSESSIONID"}


----------------------------------------------------------------------------
(* The keep-alive loop alone: nothing but its exchanges touches the session *)

\* the keep-alive scheduler runs on a manager that nothing else calls; the
\* exchanges with an invalid response are counted
InitStreak ==
    /\ Constructed
    /\ creds = FALSE
    /\ keep_alive_running = TRUE
    /\ refresh_running = FALSE
    /\ stack = [t \in {"keeper"} |-> <<[KeeperFrame EXCEPT !.observed = TRUE]>>]
    /\ ret = [t \in {"keeper"} |-> NoRet]
    /\ obs = [t \in {"keeper"} |-> NoObs("none", 0)]

NextStreak ==
    \/ Pass
    \/ \E t \in Threads : KeeperWhile(t)
    \/ \E t \in Threads : KeeperWake(t)
    \/ \E t \in Threads : KeeperCheck(t)
    \/ \E t \in Threads : KeeperWarn(t)
    \/ \E t \in Threads : KeeperLoop(t)
    \/ \E t \in Threads : RetryAttempt(t)
    \/ \E t \in Threads : RetrySuccess(t)
    \/ \E t \in Threads : RetryReturn(t)
    \/ \E t \in Threads : RetrySleep(t)
    \/ \E t \in Threads : RetryFailure(t)
    \/ \E t \in Threads : RetryRaise(t)
    \/ \E t \in Threads : KeepAliveRequest(t)
    \/ \E t \in Threads : KeepAliveTouch(t)
    \/ \E t \in Threads : KeepAliveCheck(t)
    \/ \E t \in Threads : KeepAliveSuccess(t)
    \/ \E t \in Threads : KeepAliveFailure(t)
    \/ \E t \in Threads : KeepAliveReturn(t)

SpecStreak == InitStreak /\ [][NextStreak]_vars

\* C39: once three keep-alive exchanges in a row have each had a response
\* classified invalid, nothing else having run in between, consecutive_failures
\* is at least 3 and the warning of the health snapshot is true.
ThreeInvalidExchangesWarn ==
    \A t \in Threads :
        /\ ~Idle(t)
        /\ Top(t).fn = "_keep_alive_worker"
        /\ Top(t).streak >= WarningFailures
        => /\ consecutive_failures >= WarningFailures
           /\ warning(consecutive_failures, now - last_successful_request)


\* the request supplies dateFrom and dateTo: in the query string of a GET, in
\* the form fields of a POST, or in the JSON object of a POST
DatesSupplied(req) ==
    /\ req.dateFrom
    /\ req.dateTo
    /\ req.method = "POST" /\ req.is_json => req.json = "object"

\* C40: a retrieve_shifts request that supplies dateFrom and dateTo, as query
\* parameters of a GET, form fields of a POST or JSON fields of a POST, is not
\* answered with the validation failure 400: get_shifts is invoked for it.
SuppliedDatesAreAccepted ==
    \A t \in Threads :
        At(t, "retrieve_shifts", "done") /\ DatesSupplied(Top(t).request)
            => Top(t).status # 400 /\ Top(t).invoked

====
